---- MODULE Spec2Model ----
(***************************************************************************)
(* State-machine model of the poker-onchain command orchestrator           *)
(* (src/src/orchestrator.rs): authorization, table lifecycle, hand         *)
(* orchestration, time control and tournament rebalancing over the         *)
(* PokerState key-value views (src/src/state.rs).                          *)
(*                                                                         *)
(* Every handler is a pure operator from (store, signer, command) to       *)
(* (store', response); the actions apply one whole handler per step.       *)
(* MapView<K, V> is a function from the key universe to Option(V): None    *)
(* is an absent key.  Option values are tuples: None == <<>>,              *)
(* Some(x) == <<x>>.                                                       *)
(***************************************************************************)
EXTENDS Integers, Sequences, FiniteSets, TLC

VARIABLES
    tables,              \* MapView<TableId, Table>
    active_hands,        \* MapView<TableId, Option<HandEngineSnapshot>>
    tournaments,         \* MapView<TournamentId, Tournament>
    tournament_tables,   \* MapView<TournamentId, Vec<TableId>>
    table_tournament,    \* MapView<TableId, TournamentId>
    time_controllers,    \* MapView<TableId, TimeController>
    total_hands_played,  \* RegisterView<u64>
    next_hand_id,        \* RegisterView<u64>
    base_seed,           \* RegisterView<u64>
    owner,               \* RegisterView<Option<AccountOwner>>
    player_names,        \* MapView<PlayerId, String>
    player_accounts,     \* MapView<PlayerId, AccountOwner>
    account_players,     \* MapView<AccountOwner, PlayerId>
    last                 \* kind and response of the last command executed

storeVars == <<tables, active_hands, tournaments, tournament_tables,
               table_tournament, time_controllers, total_hands_played,
               next_hand_id, base_seed, owner, player_names,
               player_accounts, account_players>>

vars == <<tables, active_hands, tournaments, tournament_tables,
          table_tournament, time_controllers, total_hands_played,
          next_hand_id, base_seed, owner, player_names,
          player_accounts, account_players, last>>

-----------------------------------------------------------------------------
(* Option values *)

None == <<>>

Some(x) == <<x>>

IsSome(o) == o # <<>>

Unwrap(o) == o[1]

-----------------------------------------------------------------------------
(* Bounds of the model *)

\* Width in bits of the scaled-down u64 (Chips) and i64 (delta) integers.
ChipBits == 3

\* StartHand is explored while the global hand counter is below this cap.
MaxHands == 1

\* Largest base seed, and the cap of the hand counter, of the seed derivation.
MaxSeed == 3

MaxSeedHands == 2

-----------------------------------------------------------------------------
(* Value universes *)

Pow2(n) == 2 ^ n

\* u64::MAX, scaled to ChipBits bits
MaxChips == Pow2(ChipBits) - 1

\* i64::MIN and i64::MAX, scaled to ChipBits bits
MinDelta == 0 - Pow2(ChipBits - 1)

MaxDelta == Pow2(ChipBits - 1) - 1

Accounts == {"acctA", "acctB", "acctC", "acctD"}

\* the callers the properties range over: nobody, the owner, another account
Signers == {None, Some("acctA"), Some("acctB")}

PlayerIds == {1, 2, 3, 4}

\* the accounts and the players of the three-player scenarios
ThreeAccounts == {"acctA", "acctB", "acctC"}

ThreePlayers == {1, 2, 3}

\* the players of the two-player scenarios
HeadsUp == {1, 2}

DisplayNames == {"", "nick"}

TournamentIds == {0}

\* tournament table ids are (tournament_id << 32) | chunk_index; the shift is
\* scaled down to ShiftBits bits.
ShiftBits == 2

TournamentTableId(tournament_id, chunk_index) ==
    tournament_id * Pow2(ShiftBits) + chunk_index

CashTableIds == {1}

MaxChunks == 2

TableIds == CashTableIds \cup
            {TournamentTableId(t, k) : t \in TournamentIds, k \in 0..(MaxChunks - 1)}

-----------------------------------------------------------------------------
(* The store as one record, so that handlers compose sequentially *)

Store ==
    [tables |-> tables, active_hands |-> active_hands,
     tournaments |-> tournaments, tournament_tables |-> tournament_tables,
     table_tournament |-> table_tournament,
     time_controllers |-> time_controllers,
     total_hands_played |-> total_hands_played,
     next_hand_id |-> next_hand_id, base_seed |-> base_seed, owner |-> owner,
     player_names |-> player_names, player_accounts |-> player_accounts,
     account_players |-> account_players]

\* A command response: variant is the CommandResponse variant, err the
\* OnchainError carried by an error response ("" for a success), engine the
\* HandStatus the engine reported to the handler ("" when it was not asked).
Response(variant, err, engine) ==
    [variant |-> variant, err |-> err, engine |-> engine, view |-> None]

\* error_response: the error is wrapped in a TableState view.
error_response(err) == Response("TableState", err, "")

Fail(S, err) == [st |-> S, resp |-> error_response(err)]

FailEngine(S, err, engine) == [st |-> S, resp |-> Response("TableState", err, engine)]

Ok(S, variant) == [st |-> S, resp |-> Response(variant, "", "")]

OkEngine(S, variant, engine) == [st |-> S, resp |-> Response(variant, "", engine)]

\* the table view a successful table command returns in its response
WithView(out, view) ==
    [out EXCEPT !.resp = IF @.err = "" THEN [@ EXCEPT !.view = Some(view)] ELSE @]

\* An abort of the whole operation (a panic): nothing is stored and no
\* response is produced.
Panic(S) == [st |-> S, resp |-> Response("Panic", "panic", "")]

-----------------------------------------------------------------------------
(* Authorization guard *)

\* ensure_admin that lets every caller through while no owner is configured
ensure_admin_open_without_owner(S, signer) ==
    IF signer = None THEN "Unauthenticated"
    ELSE IF S.owner = None THEN ""
    ELSE IF Unwrap(signer) # Unwrap(S.owner) THEN "Unauthorized"
    ELSE ""

ensure_admin(S, signer) ==
    IF signer = None THEN "Unauthenticated"
    ELSE IF S.owner = None THEN "Unauthorized"
    ELSE IF Unwrap(signer) # Unwrap(S.owner) THEN "Unauthorized"
    ELSE ""

\* ensure_player_for_signer that rebinds the caller to the id it names
ensure_player_for_signer_rebinding(S, signer, player_id) ==
    IF signer = None
    THEN [st |-> S, err |-> "Unauthenticated", player |-> player_id]
    ELSE LET acct == Unwrap(signer)
         IN [st |-> [S EXCEPT !.account_players[acct] = Some(player_id),
                              !.player_accounts[player_id] = Some(acct)],
             err |-> "", player |-> player_id]

ensure_player_for_signer(S, signer, player_id) ==
    IF signer = None
    THEN [st |-> S, err |-> "Unauthenticated", player |-> player_id]
    ELSE LET acct == Unwrap(signer)
             existing == S.account_players[acct]
         IN IF IsSome(existing)
            THEN IF Unwrap(existing) # player_id
                 THEN [st |-> S, err |-> "PlayerIdMismatch", player |-> player_id]
                 ELSE [st |-> S, err |-> "", player |-> Unwrap(existing)]
            ELSE [st |-> [S EXCEPT !.account_players[acct] = Some(player_id),
                                   !.player_accounts[player_id] = Some(acct)],
                  err |-> "", player |-> player_id]

-----------------------------------------------------------------------------
(* Domain values of the engine crate used by the table lifecycle *)

\* Chips arithmetic saturates at both ends
ChipsAdd(a, b) == IF a + b > MaxChips THEN MaxChips ELSE a + b

ChipsSub(a, b) == IF a >= b THEN a - b ELSE 0

PlayerAtTableNew(player_id, stack) == [player_id |-> player_id, stack |-> stack]

TableNew(id, max_seats, table_type, stakes) ==
    [id |-> id,
     max_seats |-> max_seats,
     table_type |-> table_type,
     stakes |-> stakes,
     seats |-> [i \in 0..(max_seats - 1) |-> None],
     hand_in_progress |-> FALSE]

\* is_seat_empty that answers false for an index outside the table
is_seat_empty_in_range_only(table, seat) ==
    IF seat \in DOMAIN table.seats THEN table.seats[seat] = None ELSE FALSE

is_seat_empty(table, seat) ==
    IF seat \in DOMAIN table.seats THEN table.seats[seat] = None ELSE TRUE

seated_count(table) == Cardinality({i \in DOMAIN table.seats : IsSome(table.seats[i])})

-----------------------------------------------------------------------------
(* Helpers of the orchestrator *)

load_table(S, id) == S.tables[id]

save_table(S, table) == [S EXCEPT !.tables[table.id] = Some(table)]

\* active_hands.get(id).flatten()
load_active_snapshot(S, table_id) ==
    IF S.active_hands[table_id] = None THEN None
    ELSE Unwrap(S.active_hands[table_id])

-----------------------------------------------------------------------------
(* Small arithmetic helpers *)

MinOf(S) == CHOOSE x \in S : \A y \in S : x <= y

MaxOf(S) == CHOOSE x \in S : \A y \in S : x >= y

RECURSIVE SetToSeq(_)
\* the elements of a finite set of integers in ascending order
SetToSeq(S) == IF S = {} THEN <<>> ELSE <<MinOf(S)>> \o SetToSeq(S \ {MinOf(S)})

SeqToSet(s) == {s[i] : i \in DOMAIN s}

RECURSIVE BitXor(_, _)
\* bitwise exclusive or of two naturals
BitXor(a, b) ==
    IF a = 0 THEN b
    ELSE IF b = 0 THEN a
    ELSE (((a % 2) + (b % 2)) % 2) + (2 * BitXor(a \div 2, b \div 2))

-----------------------------------------------------------------------------
(* Table views *)

\* the name shown for a player: the stored one, or "Player #<id>"
display_name(S, player_id) ==
    IF S.player_names[player_id] = None THEN <<"Player #", player_id>>
    ELSE <<Unwrap(S.player_names[player_id])>>

\* TableViewDto of the command path, from a table and an optional snapshot
build_table_view(S, table, active) ==
    LET current_actor_seat == IF active = None THEN None
                              ELSE Unwrap(active).current_actor
        taken == SetToSeq({i \in DOMAIN table.seats : IsSome(table.seats[i])})
        players == [k \in 1..Len(taken) |->
                       LET p == Unwrap(table.seats[taken[k]])
                       IN [player_id |-> p.player_id,
                           display_name |-> display_name(S, p.player_id),
                           seat_index |-> taken[k],
                           stack |-> p.stack]]
    IN [table_id |-> table.id, max_seats |-> table.max_seats,
        stakes |-> table.stakes, players |-> players,
        hand_in_progress |-> table.hand_in_progress,
        current_actor_seat |-> current_actor_seat]

\* TableViewDto of the query path (service.rs)
build_table_view_for_service(state, table, active) ==
    LET current_actor_seat == IF active = None THEN None
                              ELSE Unwrap(active).current_actor
        occupied == SetToSeq({idx \in DOMAIN table.seats : IsSome(table.seats[idx])})
    IN [table_id |-> table.id, max_seats |-> table.max_seats,
        stakes |-> table.stakes,
        players |-> [k \in 1..Len(occupied) |->
                        [player_id |-> Unwrap(table.seats[occupied[k]]).player_id,
                         display_name |->
                             display_name(state,
                                          Unwrap(table.seats[occupied[k]]).player_id),
                         seat_index |-> occupied[k],
                         stack |-> Unwrap(table.seats[occupied[k]]).stack]],
        hand_in_progress |-> table.hand_in_progress,
        current_actor_seat |-> current_actor_seat]

\* QueryRoot::table: the view of a stored table, None when there is none
query_table(state, table_id) ==
    IF state.tables[table_id] = None THEN None
    ELSE Some(build_table_view_for_service(
                  state, Unwrap(state.tables[table_id]),
                  IF state.active_hands[table_id] = None THEN None
                  ELSE Unwrap(state.active_hands[table_id])))

-----------------------------------------------------------------------------
(* Table lifecycle *)

handle_create_table(S, signer, cmd) ==
    LET auth == ensure_admin(S, signer) IN
    IF auth # "" THEN Fail(S, auth)
    ELSE IF IsSome(S.tables[cmd.table_id]) THEN Fail(S, "Storage")
    ELSE LET table == TableNew(cmd.table_id, cmd.max_seats, "Cash", 0)
             S1 == [S EXCEPT !.tables[cmd.table_id] = Some(table),
                             !.active_hands[cmd.table_id] = Some(None)]
         IN WithView(Ok(S1, "TableCreated"), build_table_view(S1, table, None))

handle_seat_player(S, signer, cmd) ==
    LET b == ensure_player_for_signer(S, signer, cmd.player_id) IN
    IF b.err # "" THEN Fail(b.st, b.err)
    ELSE LET S1 == b.st
             loaded == load_table(S1, cmd.table_id)
         IN IF loaded = None THEN Fail(S1, "TableNotFound")
            ELSE LET table == Unwrap(loaded)
                     seat == cmd.seat_index
                 IN IF ~is_seat_empty(table, seat) THEN Fail(S1, "SeatNotEmpty")
                    ELSE IF seat \notin DOMAIN table.seats
                         THEN Fail(S1, "InvalidSeatIndex")
                    ELSE LET pat == PlayerAtTableNew(b.player, cmd.initial_stack)
                             table2 == [table EXCEPT !.seats[seat] = Some(pat)]
                             S2 == IF cmd.display_name # ""
                                   THEN [S1 EXCEPT !.player_names[b.player] =
                                                       Some(cmd.display_name)]
                                   ELSE S1
                             S3 == save_table(S2, table2)
                         IN WithView(Ok(S3, "TableState"),
                                     build_table_view(
                                         S3, table2,
                                         load_active_snapshot(S3, table2.id)))

handle_unseat_player(S, signer, cmd) ==
    LET loaded == load_table(S, cmd.table_id) IN
    IF loaded = None THEN Fail(S, "TableNotFound")
    ELSE LET table == Unwrap(loaded)
             seat == cmd.seat_index
         IN IF seat \notin DOMAIN table.seats THEN Fail(S, "InvalidSeatIndex")
            ELSE LET table2 == [table EXCEPT !.seats[seat] = None]
                     S1 == save_table(S, table2)
                 IN WithView(Ok(S1, "TableState"),
                             build_table_view(S1, table2,
                                              load_active_snapshot(S1, table2.id)))

\* handle_seat_player of the contract (contract.rs), over the table map of the
\* application state: nothing is reported, a refused command writes the
\* state back as it was
contract_handle_seat_player(app_tables, cmd) ==
    IF app_tables[cmd.table_id] = None THEN app_tables
    ELSE LET table == Unwrap(app_tables[cmd.table_id]) IN
         IF cmd.seat_index >= Cardinality(DOMAIN table.seats) THEN app_tables
         ELSE IF IsSome(table.seats[cmd.seat_index]) THEN app_tables
         ELSE [app_tables EXCEPT ![cmd.table_id] =
                  Some([table EXCEPT !.seats[cmd.seat_index] =
                           Some(PlayerAtTableNew(cmd.player_id, cmd.initial_stack))])]

\* (-delta) as u64: the negation of i64::MIN overflows; it aborts when the
\* build checks overflow and wraps to i64::MIN otherwise, whose cast to u64
\* is 2^63.
NegAsUnsigned(delta) == 0 - delta

\* adjusted_stack that keeps the stack when the decrease exceeds it
adjusted_stack_unclamped(stack, delta) ==
    IF delta >= 0 THEN ChipsAdd(stack, delta)
    ELSE LET abs == NegAsUnsigned(delta)
         IN IF stack >= abs THEN ChipsSub(stack, abs) ELSE stack

adjusted_stack(stack, delta) ==
    IF delta >= 0 THEN ChipsAdd(stack, delta)
    ELSE LET abs == NegAsUnsigned(delta)
         IN IF stack >= abs THEN ChipsSub(stack, abs) ELSE 0

handle_adjust_stack(S, signer, cmd, overflow_checks) ==
    LET auth == ensure_admin(S, signer) IN
    IF auth # "" THEN Fail(S, auth)
    ELSE LET loaded == load_table(S, cmd.table_id) IN
         IF loaded = None THEN Fail(S, "TableNotFound")
         ELSE LET table == Unwrap(loaded)
                  seat == cmd.seat_index
              IN IF seat \in DOMAIN table.seats /\ IsSome(table.seats[seat])
                 THEN IF cmd.delta = MinDelta /\ overflow_checks
                      THEN Panic(S)
                      ELSE LET player == Unwrap(table.seats[seat])
                               stack2 == adjusted_stack(player.stack, cmd.delta)
                               table2 == [table EXCEPT !.seats[seat] =
                                            Some([player EXCEPT !.stack = stack2])]
                               S1 == save_table(S, table2)
                           IN WithView(Ok(S1, "TableState"),
                                       build_table_view(
                                           S1, table2,
                                           load_active_snapshot(S1, table2.id)))
                 ELSE Fail(S, "NoPlayerAtSeat")

\* u64::saturating_add and u64::saturating_sub
saturating_add(a, b) == IF a + b > MaxChips THEN MaxChips ELSE a + b

saturating_sub(a, b) == IF a - b < 0 THEN 0 ELSE a - b

\* the stack computed by the adjust-stack handler of src/src/contract.rs
contract_adjusted_stack(old, delta) ==
    IF delta < 0 THEN saturating_sub(old, NegAsUnsigned(delta))
    ELSE saturating_add(old, delta)

-----------------------------------------------------------------------------
(* Time control subsystem (engine crate, time_ctrl) *)

\* Time bank, in seconds, that TimeProfile::Standard gives every player.
TimeBankSecs == 2

TimeControllerNew == [banks |-> [p \in PlayerIds |-> None], current_turn |-> None]

init_players(ctrl, players) ==
    [ctrl EXCEPT !.banks = [p \in PlayerIds |->
                               IF p \in players THEN Some(TimeBankSecs) ELSE None]]

clear_current_turn(ctrl) == [ctrl EXCEPT !.current_turn = None]

start_player_turn(ctrl, player_id) ==
    [ctrl EXCEPT !.current_turn = Some(player_id),
                 !.banks[player_id] = IF @ = None THEN Some(TimeBankSecs) ELSE @]

\* decrement the armed player's bank; an exhausted bank forces a check-or-fold
on_time_passed(ctrl, secs) ==
    IF ctrl.current_turn = None
    THEN [ctrl |-> ctrl, timeout |-> None]
    ELSE LET p == Unwrap(ctrl.current_turn)
             bank == IF ctrl.banks[p] = None THEN 0 ELSE Unwrap(ctrl.banks[p])
             left == IF bank > secs THEN bank - secs ELSE 0
         IN [ctrl |-> [ctrl EXCEPT !.banks[p] = Some(left)],
             timeout |-> IF left = 0 THEN Some(p) ELSE None]

ensure_time_controller(S, table) ==
    IF IsSome(S.time_controllers[table.id])
    THEN Unwrap(S.time_controllers[table.id])
    ELSE init_players(TimeControllerNew,
                      {Unwrap(table.seats[i]).player_id :
                          i \in {j \in DOMAIN table.seats : IsSome(table.seats[j])}})

update_time_controller_for_actor(S, table, current_actor) ==
    LET ctrl == clear_current_turn(ensure_time_controller(S, table))
        ctrl2 == IF IsSome(current_actor)
                    /\ Unwrap(current_actor) \in DOMAIN table.seats
                    /\ IsSome(table.seats[Unwrap(current_actor)])
                 THEN start_player_turn(
                          ctrl, Unwrap(table.seats[Unwrap(current_actor)]).player_id)
                 ELSE ctrl
    IN [S EXCEPT !.time_controllers[table.id] = Some(ctrl2)]

clear_current_turn_for_table(S, table_id) ==
    IF IsSome(S.time_controllers[table_id])
    THEN [S EXCEPT !.time_controllers[table_id] =
                       Some(clear_current_turn(Unwrap(S.time_controllers[table_id])))]
    ELSE S

\* Some(seat) of the first seat holding the player, None for NoPlayerAtSeat
find_seat_by_player(S, table_id, player_id) ==
    IF S.tables[table_id] = None THEN None
    ELSE LET table == Unwrap(S.tables[table_id])
             found == {i \in DOMAIN table.seats :
                          IsSome(table.seats[i])
                          /\ Unwrap(table.seats[i]).player_id = player_id}
         IN IF found = {} THEN None ELSE Some(MinOf(found))

table_tournament_id(S, table_id) == S.table_tournament[table_id]

-----------------------------------------------------------------------------
(* The rules engine (engine crate), through its interface: start_hand,     *)
(* apply_action and advance_if_needed over a table and a hand engine.      *)
(* A hand is one betting round: every dealt-in seat acts once (fold,       *)
(* check or all-in); the hand ends when one seat is left or all have acted *)
(* (showdown, decided by the deck).                                        *)

HandEngine(table_id, hand_id, deck, in_hand, pending, pot, current_actor) ==
    [table_id |-> table_id, hand_id |-> hand_id, deck |-> deck,
     in_hand |-> in_hand, pending |-> pending, pot |-> pot,
     current_actor |-> current_actor]

\* seats that are dealt into a new hand: occupied, with chips
DealtSeats(table) ==
    {i \in DOMAIN table.seats :
        IsSome(table.seats[i]) /\ Unwrap(table.seats[i]).stack > 0}

engine_start_hand(table, seed, hand_id) ==
    LET dealt == DealtSeats(table) IN
    IF Cardinality(dealt) < 2
    THEN [ok |-> FALSE, table |-> table,
          engine |-> HandEngine(table.id, hand_id, seed, {}, {}, 0, None)]
    ELSE [ok |-> TRUE,
          table |-> [table EXCEPT !.hand_in_progress = TRUE],
          engine |-> HandEngine(table.id, hand_id, seed, dealt, dealt, 0,
                                Some(MinOf(dealt)))]

\* the hand is over: the winner's seat (if still occupied) takes the pot
EngineFinish(table, eng, winner) ==
    LET seats2 == IF winner \in DOMAIN table.seats /\ IsSome(table.seats[winner])
                  THEN [table.seats EXCEPT ![winner] =
                           Some([Unwrap(@) EXCEPT !.stack = ChipsAdd(@, eng.pot)])]
                  ELSE table.seats
    IN [ok |-> TRUE, status |-> "Finished",
        table |-> [table EXCEPT !.seats = seats2, !.hand_in_progress = FALSE],
        engine |-> [eng EXCEPT !.pending = {}, !.pot = 0, !.current_actor = None]]

\* a rejected action leaves the in-memory engine partly changed (the seat is
\* already taken off the to-act set when the rejection is raised)
engine_apply_action(table, eng, action) ==
    LET seat == action.seat IN
    IF \/ ~table.hand_in_progress
       \/ eng.current_actor # Some(seat)
       \/ seat \notin DOMAIN table.seats
       \/ table.seats[seat] = None
       \/ Unwrap(table.seats[seat]).player_id # action.player_id
    THEN [ok |-> FALSE, status |-> "", table |-> table,
          engine |-> [eng EXCEPT !.pending = @ \ {seat}]]
    ELSE LET p == Unwrap(table.seats[seat])
             in_hand2 == IF action.kind = "Fold" THEN eng.in_hand \ {seat}
                         ELSE eng.in_hand
             pending2 == eng.pending \ {seat}
             pot2 == IF action.kind = "AllIn" THEN ChipsAdd(eng.pot, p.stack)
                     ELSE eng.pot
             table2 == IF action.kind = "AllIn"
                       THEN [table EXCEPT !.seats[seat] = Some([p EXCEPT !.stack = 0])]
                       ELSE table
             eng2 == [eng EXCEPT !.in_hand = in_hand2, !.pending = pending2,
                                 !.pot = pot2,
                                 !.current_actor = IF pending2 = {} THEN None
                                                   ELSE Some(MinOf(pending2))]
         IN IF Cardinality(in_hand2) = 1
            THEN EngineFinish(table2, eng2, MinOf(in_hand2))
            ELSE [ok |-> TRUE, status |-> "Ongoing", table |-> table2, engine |-> eng2]

\* the seat the deck makes win a showdown
ShowdownWinner(eng) ==
    SetToSeq(eng.in_hand)[(eng.deck % Cardinality(eng.in_hand)) + 1]

engine_advance_if_needed(table, eng) ==
    IF ~table.hand_in_progress
    THEN [ok |-> FALSE, status |-> "", table |-> table, engine |-> eng]
    ELSE IF eng.pending = {} /\ eng.in_hand # {}
    THEN EngineFinish(table, eng, ShowdownWinner(eng))
    ELSE [ok |-> TRUE, status |-> "Ongoing", table |-> table, engine |-> eng]

\* HandEngineSnapshot::from_engine and into_engine copy the fields one by one
from_engine(eng) ==
    [table_id |-> eng.table_id, hand_id |-> eng.hand_id, deck |-> eng.deck,
     in_hand |-> eng.in_hand, pending |-> eng.pending, pot |-> eng.pot,
     current_actor |-> eng.current_actor]

into_engine(snapshot) ==
    [table_id |-> snapshot.table_id, hand_id |-> snapshot.hand_id,
     deck |-> snapshot.deck, in_hand |-> snapshot.in_hand,
     pending |-> snapshot.pending, pot |-> snapshot.pot,
     current_actor |-> snapshot.current_actor]

-----------------------------------------------------------------------------
(* Tournament domain (engine crate, domain::tournament) *)

Registration(total_chips) ==
    [total_chips |-> total_chips, table_id |-> None, seat_index |-> None,
     is_busted |-> FALSE]

TournamentNew(id, config) ==
    [id |-> id, status |-> "Registering", current_level |-> 1,
     table_size |-> config.table_size, num_levels |-> config.num_levels,
     starting_stack |-> config.starting_stack,
     registrations |-> [p \in PlayerIds |-> None]]

level_by_number(t, level) == level \in 1..t.num_levels

Registered(t) == {p \in PlayerIds : IsSome(t.registrations[p])}

ActiveRegs(t) == {p \in Registered(t) : ~Unwrap(t.registrations[p]).is_busted}

register_player(t, player_id) ==
    IF t.status # "Registering" THEN [err |-> "Tournament:InvalidStatus", t |-> t]
    ELSE IF IsSome(t.registrations[player_id])
    THEN [err |-> "Tournament:AlreadyRegistered", t |-> t]
    ELSE [err |-> "",
          t |-> [t EXCEPT !.registrations[player_id] =
                              Some(Registration(t.starting_stack))]]

\* Tournament::start that sets Running whatever the status is
tournament_start_any_status(t) == [err |-> "", t |-> [t EXCEPT !.status = "Running"]]

tournament_start(t) ==
    IF t.status # "Registering" THEN [err |-> "Tournament:InvalidStatus", t |-> t]
    ELSE [err |-> "", t |-> [t EXCEPT !.status = "Running"]]

mark_player_busted(t, player_id) ==
    IF t.registrations[player_id] = None
    THEN [err |-> "Tournament:NotRegistered", t |-> t]
    ELSE IF ActiveRegs(t) = {player_id}
    THEN [err |-> "Tournament:CannotBustLastPlayer", t |-> t]
    ELSE LET t2 == [t EXCEPT !.registrations[player_id] =
                                 Some([Unwrap(@) EXCEPT !.is_busted = TRUE])]
         IN [err |-> "",
             t |-> IF Cardinality(ActiveRegs(t2)) <= 1
                   THEN [t2 EXCEPT !.status = "Finished"] ELSE t2]

\* non-busted registrations that have a table
SeatedRegs(t) == {p \in ActiveRegs(t) : IsSome(Unwrap(t.registrations[p]).table_id)}

RegTable(t, p) == Unwrap(Unwrap(t.registrations[p]).table_id)

RegsAt(t, tid) == {p \in SeatedRegs(t) : RegTable(t, p) = tid}

RECURSIVE PlanMoves(_, _, _, _)
\* move the players of one table, in ascending player id, each to the other
\* table with the fewest players that still has room
PlanMoves(players, from, occ, size) ==
    IF players = <<>> THEN <<>>
    ELSE LET p == Head(players)
             room == {d \in DOMAIN occ : d # from /\ occ[d] < size}
         IN IF room = {} THEN PlanMoves(Tail(players), from, occ, size)
            ELSE LET least == MinOf({occ[d] : d \in room})
                     to == MinOf({d \in room : occ[d] = least})
                 IN <<[player_id |-> p, from_table |-> from, to_table |-> to]>>
                    \o PlanMoves(Tail(players), from,
                                 [occ EXCEPT ![to] = @ + 1, ![from] = @ - 1], size)

compute_rebalance_moves(t) ==
    LET tids == {RegTable(t, p) : p \in SeatedRegs(t)}
        occ == [d \in tids |-> Cardinality(RegsAt(t, d))]
        total == Cardinality(SeatedRegs(t))
    IN IF Cardinality(tids) < 2 THEN <<>>
       ELSE LET least == MinOf({occ[d] : d \in tids})
                most == MaxOf({occ[d] : d \in tids})
                small == MinOf({d \in tids : occ[d] = least})
                big == MinOf({d \in tids : occ[d] = most})
            IN IF total <= t.table_size * (Cardinality(tids) - 1)
               THEN \* one table fewer is enough: break the smallest table
                    PlanMoves(SetToSeq(RegsAt(t, small)), small, occ, t.table_size)
               ELSE IF most - least >= 2
               THEN <<[player_id |-> MinOf(RegsAt(t, big)),
                       from_table |-> big, to_table |-> small]>>
               ELSE <<>>

RECURSIVE apply_rebalance_moves(_, _)
apply_rebalance_moves(t, moves) ==
    IF moves = <<>> THEN t
    ELSE LET m == Head(moves)
             t2 == IF IsSome(t.registrations[m.player_id])
                   THEN [t EXCEPT !.registrations[m.player_id] =
                            Some([Unwrap(@) EXCEPT !.table_id = Some(m.to_table),
                                                   !.seat_index = None])]
                   ELSE t
         IN apply_rebalance_moves(t2, Tail(moves))

\* stakes of a level (the level whose blinds apply), falling back to level 1;
\* -1 stands for the failed expect of a blind structure with no level
stakes_for_tournament_level(t, level) ==
    IF level_by_number(t, level) THEN level
    ELSE IF level_by_number(t, 1) THEN 1
    ELSE 0 - 1

load_tournament(S, id) == S.tournaments[id]

-----------------------------------------------------------------------------
(* Tournament rebalancer *)

\* player_id -> Some(<<table_id, seat_index, stack>>) over the loaded tables;
\* a player found in several seats keeps the entry inserted last
player_locations(tbls, player_id) ==
    LET found == UNION {{<<tid, i>> : i \in {j \in DOMAIN tbls[tid].seats :
                                   /\ IsSome(tbls[tid].seats[j])
                                   /\ Unwrap(tbls[tid].seats[j]).player_id = player_id}} :
                           tid \in DOMAIN tbls}
    IN IF found = {} THEN None
       ELSE LET tid == MaxOf({f[1] : f \in found})
                i == MaxOf({f[2] : f \in {g \in found : g[1] = tid}})
            IN Some(<<tid, i, Unwrap(tbls[tid].seats[i]).stack>>)

\* step 5: synchronise one registration with the live seat
SyncRegistration(reg, loc) ==
    IF reg.is_busted \/ loc = None THEN reg
    ELSE [reg EXCEPT !.table_id = Some(Unwrap(loc)[1]),
                     !.seat_index = Some(Unwrap(loc)[2]),
                     !.total_chips = Unwrap(loc)[3]]

\* step 5: the players with no chips left
BustedCandidates(t, tbls) ==
    {p \in ActiveRegs(t) :
        LET loc == player_locations(tbls, p)
        IN IF IsSome(loc) THEN Unwrap(loc)[3] = 0
           ELSE Unwrap(t.registrations[p]).total_chips = 0}

RECURSIVE BustPlayers_reports_last(_, _, _, _)
\* BustPlayers that returns the rejected bust of the last player as an error
BustPlayers_reports_last(cands, t, tbls, locs) ==
    IF cands = <<>> THEN [err |-> "", t |-> t, tbls |-> tbls]
    ELSE LET p == Head(cands)
             loc == locs[p]
             tbls2 == IF IsSome(loc) /\ Unwrap(loc)[1] \in DOMAIN tbls
                         /\ Unwrap(loc)[2] \in DOMAIN tbls[Unwrap(loc)[1]].seats
                      THEN [tbls EXCEPT ![Unwrap(loc)[1]].seats[Unwrap(loc)[2]] = None]
                      ELSE tbls
             r == mark_player_busted(t, p)
         IN IF r.err = ""
            THEN BustPlayers_reports_last(Tail(cands), r.t, tbls2, locs)
            ELSE [err |-> r.err, t |-> r.t, tbls |-> tbls2]

RECURSIVE BustPlayers(_, _, _, _)
\* step 6: empty the seat of every candidate and mark it busted; a rejected
\* bust of the last player is ignored, any other error is returned
BustPlayers(cands, t, tbls, locs) ==
    IF cands = <<>> THEN [err |-> "", t |-> t, tbls |-> tbls]
    ELSE LET p == Head(cands)
             loc == locs[p]
             tbls2 == IF IsSome(loc) /\ Unwrap(loc)[1] \in DOMAIN tbls
                         /\ Unwrap(loc)[2] \in DOMAIN tbls[Unwrap(loc)[1]].seats
                      THEN [tbls EXCEPT ![Unwrap(loc)[1]].seats[Unwrap(loc)[2]] = None]
                      ELSE tbls
             r == mark_player_busted(t, p)
         IN IF r.err = "" \/ r.err = "Tournament:CannotBustLastPlayer"
            THEN BustPlayers(Tail(cands), r.t, tbls2, locs)
            ELSE [err |-> r.err, t |-> r.t, tbls |-> tbls2]

RECURSIVE ExecuteMoves(_, _, _)
\* step 7.1: take the player off the source table and put it in the first
\* free seat of the destination table
ExecuteMoves(moves, tbls, new_seats) ==
    IF moves = <<>> THEN [tbls |-> tbls, new_seats |-> new_seats]
    ELSE LET m == Head(moves) IN
         IF m.from_table \notin DOMAIN tbls
         THEN ExecuteMoves(Tail(moves), tbls, new_seats)
         ELSE LET from == tbls[m.from_table]
                  at == {i \in DOMAIN from.seats :
                            IsSome(from.seats[i])
                            /\ Unwrap(from.seats[i]).player_id = m.player_id}
              IN IF at = {} THEN ExecuteMoves(Tail(moves), tbls, new_seats)
                 ELSE LET moved == Unwrap(from.seats[MinOf(at)])
                          tbls2 == [tbls EXCEPT ![m.from_table].seats[MinOf(at)] = None]
                          free == IF m.to_table \in DOMAIN tbls2
                                  THEN {i \in DOMAIN tbls2[m.to_table].seats :
                                           tbls2[m.to_table].seats[i] = None}
                                  ELSE {}
                      IN IF free = {}
                         THEN ExecuteMoves(Tail(moves), tbls2, new_seats)
                         ELSE ExecuteMoves(
                                  Tail(moves),
                                  [tbls2 EXCEPT ![m.to_table].seats[MinOf(free)] =
                                                    Some(moved)],
                                  [new_seats EXCEPT ![m.player_id] = Some(MinOf(free))])

RECURSIVE StoreTables_keeps_empty(_, _, _)
\* StoreTables that saves the tables left empty as well
StoreTables_keeps_empty(tids, tbls, S) ==
    IF tids = <<>> THEN S
    ELSE StoreTables_keeps_empty(Tail(tids), tbls, save_table(S, tbls[Head(tids)]))

RECURSIVE StoreTables_keeps_controller(_, _, _)
\* StoreTables that leaves the time controller of a dropped table in place
StoreTables_keeps_controller(tids, tbls, S) ==
    IF tids = <<>> THEN S
    ELSE LET tid == Head(tids) IN
         IF seated_count(tbls[tid]) = 0
         THEN StoreTables_keeps_controller(
                  Tail(tids), tbls,
                  [S EXCEPT !.tables[tid] = None,
                            !.active_hands[tid] = None,
                            !.table_tournament[tid] = None])
         ELSE StoreTables_keeps_controller(Tail(tids), tbls,
                                           save_table(S, tbls[tid]))

RECURSIVE StoreTables(_, _, _)
\* step 8: drop the tables left empty, save the others
StoreTables(tids, tbls, S) ==
    IF tids = <<>> THEN S
    ELSE LET tid == Head(tids) IN
         IF seated_count(tbls[tid]) = 0
         THEN StoreTables(Tail(tids), tbls,
                          [S EXCEPT !.tables[tid] = None,
                                    !.active_hands[tid] = None,
                                    !.table_tournament[tid] = None,
                                    !.time_controllers[tid] = None])
         ELSE StoreTables(Tail(tids), tbls, save_table(S, tbls[tid]))

handle_tournament_after_hand(S, tournament_id) ==
    IF load_tournament(S, tournament_id) = None
    THEN [st |-> S, err |-> "TournamentNotFound"]
    ELSE LET t0 == Unwrap(load_tournament(S, tournament_id))
             table_ids == IF S.tournament_tables[tournament_id] = None THEN <<>>
                          ELSE Unwrap(S.tournament_tables[tournament_id])
             loaded == {tid \in SeqToSet(table_ids) : IsSome(S.tables[tid])}
         IN IF t0.status # "Running" \/ table_ids = <<>> \/ loaded = {}
            THEN [st |-> S, err |-> ""]
            ELSE LET tbls0 == [tid \in loaded |-> Unwrap(S.tables[tid])]
                     locs == [p \in PlayerIds |-> player_locations(tbls0, p)]
                     cands == SetToSeq(BustedCandidates(t0, tbls0))
                     t1 == [t0 EXCEPT !.registrations =
                               [p \in PlayerIds |->
                                   IF t0.registrations[p] = None THEN None
                                   ELSE Some(SyncRegistration(
                                                Unwrap(t0.registrations[p]), locs[p]))]]
                     b == BustPlayers(cands, t1, tbls0, locs)
                 IN IF b.err # "" THEN [st |-> S, err |-> b.err]
                    ELSE LET moves == compute_rebalance_moves(b.t)
                             x == ExecuteMoves(moves, b.tbls,
                                               [p \in PlayerIds |-> None])
                             t2 == apply_rebalance_moves(b.t, moves)
                             t3 == [t2 EXCEPT !.registrations =
                                       [p \in PlayerIds |->
                                           IF IsSome(x.new_seats[p])
                                              /\ IsSome(t2.registrations[p])
                                           THEN Some([Unwrap(t2.registrations[p]) EXCEPT
                                                        !.seat_index = x.new_seats[p]])
                                           ELSE t2.registrations[p]]]
                             S1 == StoreTables(SetToSeq(loaded), x.tbls, S)
                             kept == SelectSeq(SetToSeq(loaded),
                                               LAMBDA tid : seated_count(x.tbls[tid]) # 0)
                         IN [st |-> [S1 EXCEPT
                                       !.tournament_tables[tournament_id] = Some(kept),
                                       !.tournaments[tournament_id] = Some(t3)],
                             err |-> ""]

-----------------------------------------------------------------------------
(* Hand orchestrator *)


\* start_new_hand without the insert into active_hands
start_new_hand_no_snapshot(S, table) ==
    LET hand_id == S.next_hand_id + 1
        S1 == [S EXCEPT !.next_hand_id = hand_id]
        seed == BitXor(BitXor(S1.base_seed, hand_id), table.id)
        r == engine_start_hand(table, seed, hand_id)
    IN IF ~r.ok THEN Fail(S1, "EngineError")
       ELSE LET S2 == [S1 EXCEPT !.total_hands_played = @ + 1]
                S3 == save_table(S2, r.table)
                S4 == update_time_controller_for_actor(
                          S3, r.table, r.engine.current_actor)
            IN Ok(S4, "TableState")

\* start_new_hand that does not write the new hand id back to the counter
start_new_hand_keeps_counter(S, table) ==
    LET hand_id == S.next_hand_id + 1
        seed == BitXor(BitXor(S.base_seed, hand_id), table.id)
        r == engine_start_hand(table, seed, hand_id)
    IN IF ~r.ok THEN Fail(S, "EngineError")
       ELSE LET snapshot == from_engine(r.engine)
                S2 == [S EXCEPT !.total_hands_played = @ + 1,
                                !.active_hands[table.id] = Some(Some(snapshot))]
                S3 == save_table(S2, r.table)
                S4 == update_time_controller_for_actor(
                          S3, r.table, r.engine.current_actor)
            IN WithView(Ok(S4, "TableState"),
                        build_table_view(S4, r.table, Some(snapshot)))

\* the body of handle_start_hand once the table is known to be idle: take
\* the hand id from the global counter, derive the seed, start the engine,
\* store the snapshot and the table, arm the clock of the first actor
start_new_hand(S, table) ==
    LET hand_id == S.next_hand_id + 1
        S1 == [S EXCEPT !.next_hand_id = hand_id]
        seed == BitXor(BitXor(S1.base_seed, hand_id), table.id)
        r == engine_start_hand(table, seed, hand_id)
    IN IF ~r.ok THEN Fail(S1, "EngineError")
       ELSE LET snapshot == from_engine(r.engine)
                S2 == [S1 EXCEPT !.total_hands_played = @ + 1,
                                 !.active_hands[table.id] = Some(Some(snapshot))]
                S3 == save_table(S2, r.table)
                S4 == update_time_controller_for_actor(
                          S3, r.table, r.engine.current_actor)
            IN WithView(Ok(S4, "TableState"),
                        build_table_view(S4, r.table, Some(snapshot)))

\* handle_start_hand whose seed also depends on the caller
handle_start_hand_caller_seed(S, signer, cmd) ==
    LET loaded == load_table(S, cmd.table_id)
        salt == IF signer = Some("acctB") THEN 1 ELSE 0
    IN IF loaded = None THEN Fail(S, "TableNotFound")
       ELSE IF Unwrap(loaded).hand_in_progress THEN Fail(S, "HandAlreadyInProgress")
       ELSE LET out == start_new_hand([S EXCEPT !.base_seed = @ + salt],
                                      Unwrap(loaded))
            IN [out EXCEPT !.st.base_seed = S.base_seed]

\* handle_start_hand without the hand_in_progress guard
handle_start_hand_unguarded(S, signer, cmd) ==
    LET loaded == load_table(S, cmd.table_id) IN
    IF loaded = None THEN Fail(S, "TableNotFound")
    ELSE start_new_hand(S, Unwrap(loaded))

handle_start_hand(S, signer, cmd) ==
    LET loaded == load_table(S, cmd.table_id) IN
    IF loaded = None THEN Fail(S, "TableNotFound")
    ELSE IF Unwrap(loaded).hand_in_progress THEN Fail(S, "HandAlreadyInProgress")
    ELSE start_new_hand(S, Unwrap(loaded))

\* the Ongoing arm: replace the snapshot, re-arm the clock for the new actor
hand_continues(S, table, eng) ==
    LET S2 == [S EXCEPT !.active_hands[table.id] = Some(Some(from_engine(eng)))]
    IN OkEngine(update_time_controller_for_actor(S2, table, eng.current_actor),
                "TableState", "Ongoing")

\* the finished arm without the reset of the snapshot slot
hand_finished_keeps_snapshot(S, table) ==
    LET S3 == clear_current_turn_for_table(S, table.id)
        tour == table_tournament_id(S3, table.id)
        h == IF IsSome(tour) THEN handle_tournament_after_hand(S3, Unwrap(tour))
             ELSE [st |-> S3, err |-> ""]
    IN IF h.err # "" THEN FailEngine(h.st, h.err, "Finished")
       ELSE OkEngine(h.st, "HandFinished", "Finished")

\* the finished arm: empty the snapshot slot, disarm the clock, run the
\* tournament hook if the table belongs to a tournament
hand_finished(S, table) ==
    LET S2 == [S EXCEPT !.active_hands[table.id] = Some(None)]
        S3 == clear_current_turn_for_table(S2, table.id)
        tour == table_tournament_id(S3, table.id)
        h == IF IsSome(tour) THEN handle_tournament_after_hand(S3, Unwrap(tour))
             ELSE [st |-> S3, err |-> ""]
    IN IF h.err # "" THEN FailEngine(h.st, h.err, "Finished")
       ELSE OkEngine(h.st, "HandFinished", "Finished")

\* apply_and_settle that writes the in-memory table and engine back when
\* the engine rejects the action
apply_and_settle_stores_rejected(S, table0, eng0, action) ==
    LET a == engine_apply_action(table0, eng0, action) IN
    IF ~a.ok
    THEN Fail([save_table(S, a.table) EXCEPT
                  !.active_hands[table0.id] = Some(Some(from_engine(a.engine)))],
              "EngineError")
    ELSE LET adv == engine_advance_if_needed(a.table, a.engine)
             status == IF adv.ok THEN adv.status ELSE a.status
             S1 == save_table(S, adv.table)
         IN IF status = "Ongoing" THEN hand_continues(S1, adv.table, adv.engine)
            ELSE hand_finished(S1, adv.table)

\* apply_action, then advance_if_needed (whose failure is ignored), save the
\* table and persist one of the two outcomes
apply_and_settle(S, table0, eng0, action) ==
    LET a == engine_apply_action(table0, eng0, action) IN
    IF ~a.ok THEN Fail(S, "EngineError")
    ELSE LET adv == engine_advance_if_needed(a.table, a.engine)
             status == IF adv.ok THEN adv.status ELSE a.status
             S1 == save_table(S, adv.table)
         IN IF status = "Ongoing"
            THEN WithView(hand_continues(S1, adv.table, adv.engine),
                          build_table_view(S1, adv.table,
                                           Some(from_engine(adv.engine))))
            ELSE WithView(hand_finished(S1, adv.table),
                          build_table_view(S1, adv.table,
                                           Some(from_engine(adv.engine))))

\* handle_player_action that answers with the table state when no hand is
\* stored
handle_player_action_idle_ok(S, signer, cmd) ==
    LET loaded == load_table(S, cmd.table_id)
        snapshot_opt == load_active_snapshot(S, cmd.table_id)
    IN IF loaded = None THEN Fail(S, "TableNotFound")
       ELSE IF snapshot_opt = None THEN Ok(S, "TableState")
       ELSE apply_and_settle(S, Unwrap(loaded), into_engine(Unwrap(snapshot_opt)),
                             cmd.action)

handle_player_action(S, signer, cmd) ==
    LET loaded == load_table(S, cmd.table_id)
        snapshot_opt == load_active_snapshot(S, cmd.table_id)
    IN IF loaded = None THEN Fail(S, "TableNotFound")
       ELSE IF snapshot_opt = None THEN Fail(S, "NoActiveHand")
       ELSE apply_and_settle(S, Unwrap(loaded), into_engine(Unwrap(snapshot_opt)),
                             cmd.action)

\* handle_tick_table whose forced action is a check
handle_tick_table_forced_check(S, signer, cmd) ==
    LET loaded == load_table(S, cmd.table_id)
        snapshot_opt == load_active_snapshot(S, cmd.table_id)
    IN
    IF loaded = None THEN Fail(S, "TableNotFound")
    ELSE IF snapshot_opt = None
    THEN WithView(Ok(S, "TableState"), build_table_view(S, Unwrap(loaded), None))
    ELSE LET table == Unwrap(loaded)
             d == on_time_passed(ensure_time_controller(S, table), cmd.delta_secs)
         IN IF d.timeout = None
            THEN WithView(
                     Ok([S EXCEPT !.time_controllers[table.id] = Some(d.ctrl)],
                        "TableState"),
                     build_table_view(
                         S, table,
                         Some(from_engine(into_engine(Unwrap(snapshot_opt))))))
            ELSE LET player_id == Unwrap(d.timeout)
                     seat == find_seat_by_player(S, table.id, player_id)
                 IN IF seat = None THEN Fail(S, "NoPlayerAtSeat")
                    ELSE apply_and_settle(
                             S, table, into_engine(Unwrap(snapshot_opt)),
                             [seat |-> Unwrap(seat), player_id |-> player_id,
                              kind |-> "Check"])

\* handle_tick_table that does not store the controller after a tick without
\* a timeout
handle_tick_table_keeps_old_controller(S, signer, cmd) ==
    LET loaded == load_table(S, cmd.table_id)
        snapshot_opt == load_active_snapshot(S, cmd.table_id)
    IN
    IF loaded = None THEN Fail(S, "TableNotFound")
    ELSE IF snapshot_opt = None
    THEN WithView(Ok(S, "TableState"), build_table_view(S, Unwrap(loaded), None))
    ELSE LET table == Unwrap(loaded)
             d == on_time_passed(ensure_time_controller(S, table), cmd.delta_secs)
         IN IF d.timeout = None
            THEN WithView(
                     Ok(S, "TableState"),
                     build_table_view(
                         S, table,
                         Some(from_engine(into_engine(Unwrap(snapshot_opt))))))
            ELSE LET player_id == Unwrap(d.timeout)
                     seat == find_seat_by_player(S, table.id, player_id)
                 IN IF seat = None THEN Fail(S, "NoPlayerAtSeat")
                    ELSE apply_and_settle(
                             S, table, into_engine(Unwrap(snapshot_opt)),
                             [seat |-> Unwrap(seat), player_id |-> player_id,
                              kind |-> "Fold"])

handle_tick_table(S, signer, cmd) ==
    LET loaded == load_table(S, cmd.table_id)
        snapshot_opt == load_active_snapshot(S, cmd.table_id)
    IN
    IF loaded = None THEN Fail(S, "TableNotFound")
    ELSE IF snapshot_opt = None
    THEN WithView(Ok(S, "TableState"), build_table_view(S, Unwrap(loaded), None))
    ELSE LET table == Unwrap(loaded)
             d == on_time_passed(ensure_time_controller(S, table), cmd.delta_secs)
         IN IF d.timeout = None
            THEN WithView(
                     Ok([S EXCEPT !.time_controllers[table.id] = Some(d.ctrl)],
                        "TableState"),
                     build_table_view(
                         S, table,
                         Some(from_engine(into_engine(Unwrap(snapshot_opt))))))
            ELSE LET player_id == Unwrap(d.timeout)
                     seat == find_seat_by_player(S, table.id, player_id)
                 IN IF seat = None THEN Fail(S, "NoPlayerAtSeat")
                    ELSE apply_and_settle(
                             S, table, into_engine(Unwrap(snapshot_opt)),
                             [seat |-> Unwrap(seat), player_id |-> player_id,
                              kind |-> "Fold"])

-----------------------------------------------------------------------------
(* The hand orchestrator when the storage of the time controllers may fail  *)
(* while the clock is cleared at the end of a hand: clear_fails is the      *)
(* outcome of that storage access.                                          *)

\* clear_current_turn_for_table with its result: a failed get or insert of
\* time_controllers returns the Storage error and leaves the view as it was
clear_current_turn_for_table_storage(S, table_id, clear_fails) ==
    IF clear_fails THEN [st |-> S, err |-> "Storage"]
    ELSE [st |-> clear_current_turn_for_table(S, table_id), err |-> ""]

\* the finished arm that returns the error of the clock cleanup
hand_finished_storage_reported(S, table, clear_fails) ==
    LET S2 == [S EXCEPT !.active_hands[table.id] = Some(None)]
        c == clear_current_turn_for_table_storage(S2, table.id, clear_fails)
    IN IF c.err # "" THEN FailEngine(c.st, c.err, "Finished")
       ELSE hand_finished(S, table)

\* the finished arm: the error of the clock cleanup is logged and dropped
hand_finished_storage(S, table, clear_fails) ==
    LET S2 == [S EXCEPT !.active_hands[table.id] = Some(None)]
        S3 == clear_current_turn_for_table_storage(S2, table.id, clear_fails).st
        tour == table_tournament_id(S3, table.id)
        h == IF IsSome(tour) THEN handle_tournament_after_hand(S3, Unwrap(tour))
             ELSE [st |-> S3, err |-> ""]
    IN IF h.err # "" THEN FailEngine(h.st, h.err, "Finished")
       ELSE OkEngine(h.st, "HandFinished", "Finished")

apply_and_settle_storage(S, table0, eng0, action, clear_fails) ==
    LET a == engine_apply_action(table0, eng0, action) IN
    IF ~a.ok THEN Fail(S, "EngineError")
    ELSE LET adv == engine_advance_if_needed(a.table, a.engine)
             status == IF adv.ok THEN adv.status ELSE a.status
             S1 == save_table(S, adv.table)
         IN IF status = "Ongoing"
            THEN WithView(hand_continues(S1, adv.table, adv.engine),
                          build_table_view(S1, adv.table,
                                           Some(from_engine(adv.engine))))
            ELSE WithView(hand_finished_storage(S1, adv.table, clear_fails),
                          build_table_view(S1, adv.table,
                                           Some(from_engine(adv.engine))))

handle_player_action_storage(S, signer, cmd, clear_fails) ==
    LET loaded == load_table(S, cmd.table_id)
        snapshot_opt == load_active_snapshot(S, cmd.table_id)
    IN IF loaded = None THEN Fail(S, "TableNotFound")
       ELSE IF snapshot_opt = None THEN Fail(S, "NoActiveHand")
       ELSE apply_and_settle_storage(S, Unwrap(loaded),
                                     into_engine(Unwrap(snapshot_opt)),
                                     cmd.action, clear_fails)

handle_tick_table_storage(S, signer, cmd, clear_fails) ==
    LET loaded == load_table(S, cmd.table_id)
        snapshot_opt == load_active_snapshot(S, cmd.table_id)
    IN
    IF loaded = None THEN Fail(S, "TableNotFound")
    ELSE IF snapshot_opt = None
    THEN WithView(Ok(S, "TableState"), build_table_view(S, Unwrap(loaded), None))
    ELSE LET table == Unwrap(loaded)
             d == on_time_passed(ensure_time_controller(S, table), cmd.delta_secs)
         IN IF d.timeout = None
            THEN WithView(
                     Ok([S EXCEPT !.time_controllers[table.id] = Some(d.ctrl)],
                        "TableState"),
                     build_table_view(
                         S, table,
                         Some(from_engine(into_engine(Unwrap(snapshot_opt))))))
            ELSE LET player_id == Unwrap(d.timeout)
                     seat == find_seat_by_player(S, table.id, player_id)
                 IN IF seat = None THEN Fail(S, "NoPlayerAtSeat")
                    ELSE apply_and_settle_storage(
                             S, table, into_engine(Unwrap(snapshot_opt)),
                             [seat |-> Unwrap(seat), player_id |-> player_id,
                              kind |-> "Fold"],
                             clear_fails)

-----------------------------------------------------------------------------
(* Tournament commands *)

handle_create_tournament(S, signer, cmd) ==
    LET auth == ensure_admin(S, signer) IN
    IF auth # "" THEN Fail(S, auth)
    ELSE IF IsSome(S.tournaments[cmd.tournament_id])
    THEN Fail(S, "TournamentAlreadyExists")
    ELSE LET tournament == TournamentNew(cmd.tournament_id, cmd.config)
         IN Ok([S EXCEPT !.tournaments[cmd.tournament_id] = Some(tournament),
                         !.tournament_tables[cmd.tournament_id] = Some(<<>>)],
               "TournamentState")

handle_register_player_in_tournament(S, signer, cmd) ==
    LET b == ensure_player_for_signer(S, signer, cmd.player_id) IN
    IF b.err # "" THEN Fail(b.st, b.err)
    ELSE IF load_tournament(b.st, cmd.tournament_id) = None
    THEN Fail(b.st, "TournamentNotFound")
    ELSE LET r == register_player(Unwrap(load_tournament(b.st, cmd.tournament_id)),
                                  b.player)
         IN IF r.err # "" THEN Fail(b.st, r.err)
            ELSE LET S1 == [b.st EXCEPT !.tournaments[cmd.tournament_id] = Some(r.t)]
                     S2 == IF cmd.display_name # ""
                           THEN [S1 EXCEPT !.player_names[b.player] =
                                               Some(cmd.display_name)]
                           ELSE S1
                 IN Ok(S2, "TournamentState")

handle_unregister_player_from_tournament(S, signer, cmd) ==
    LET b == ensure_player_for_signer(S, signer, cmd.player_id) IN
    IF b.err # "" THEN Fail(b.st, b.err)
    ELSE IF load_tournament(b.st, cmd.tournament_id) = None
    THEN Fail(b.st, "TournamentNotFound")
    ELSE LET tournament == Unwrap(load_tournament(b.st, cmd.tournament_id)) IN
         IF tournament.status # "Registering"
         THEN Fail(b.st, "Tournament:InvalidStatus")
         ELSE IF tournament.registrations[b.player] = None
         THEN Fail(b.st, "Tournament:NotRegistered")
         ELSE Ok([b.st EXCEPT !.tournaments[cmd.tournament_id] =
                     Some([tournament EXCEPT !.registrations[b.player] = None])],
                 "TournamentState")

\* the chunk_index-th chunk of player_ids.chunks(max_seats)
Chunk(player_ids, max_seats, chunk_index) ==
    SubSeq(player_ids, chunk_index * max_seats + 1,
           IF (chunk_index + 1) * max_seats < Len(player_ids)
           THEN (chunk_index + 1) * max_seats ELSE Len(player_ids))

\* the number of full chunks only: the last, shorter chunk is left out
NumChunks_full_only(player_ids, max_seats) == Len(player_ids) \div max_seats

NumChunks(player_ids, max_seats) == (Len(player_ids) + max_seats - 1) \div max_seats

\* the table of one chunk: the chunk's players in seats 0, 1, ...
ChunkTable(tournament, tournament_id, chunk, chunk_index) ==
    LET table_id == TournamentTableId(tournament_id, chunk_index)
        empty == TableNew(table_id, tournament.table_size, "Tournament",
                          stakes_for_tournament_level(tournament,
                                                      tournament.current_level))
    IN [empty EXCEPT !.seats =
           [i \in DOMAIN empty.seats |->
               IF i + 1 <= Len(chunk)
               THEN Some(PlayerAtTableNew(
                        chunk[i + 1],
                        Unwrap(tournament.registrations[chunk[i + 1]]).total_chips))
               ELSE None]]

RECURSIVE InsertTables(_, _, _)
InsertTables(new_tables, tournament_id, S) ==
    IF new_tables = <<>> THEN S
    ELSE LET id == Head(new_tables).id
         IN InsertTables(Tail(new_tables), tournament_id,
                         [S EXCEPT !.tables[id] = Some(Head(new_tables)),
                                   !.active_hands[id] = Some(None),
                                   !.table_tournament[id] = Some(tournament_id)])

handle_start_tournament(S, signer, cmd) ==
    LET auth == ensure_admin(S, signer) IN
    IF auth # "" THEN Fail(S, auth)
    ELSE IF load_tournament(S, cmd.tournament_id) = None
    THEN Fail(S, "TournamentNotFound")
    ELSE LET tournament == Unwrap(load_tournament(S, cmd.tournament_id))
             max_seats == tournament.table_size
             player_ids == SetToSeq(Registered(tournament))
         IN IF max_seats = 0 THEN Panic(S)
            ELSE IF player_ids # <<>>
                    /\ stakes_for_tournament_level(tournament,
                                                   tournament.current_level) < 0
            THEN Panic(S)
            ELSE LET n == NumChunks(player_ids, max_seats)
                     new_tables == [k \in 1..n |->
                                       ChunkTable(tournament, cmd.tournament_id,
                                                  Chunk(player_ids, max_seats, k - 1),
                                                  k - 1)]
                     new_table_ids == [k \in 1..n |-> new_tables[k].id]
                     seated == [tournament EXCEPT !.registrations =
                                   [p \in PlayerIds |->
                                       IF tournament.registrations[p] = None THEN None
                                       ELSE LET pos == CHOOSE j \in 1..Len(player_ids) :
                                                           player_ids[j] = p
                                            IN Some([Unwrap(tournament.registrations[p])
                                                 EXCEPT
                                                 !.table_id = Some(TournamentTableId(
                                                     cmd.tournament_id,
                                                     (pos - 1) \div max_seats)),
                                                 !.seat_index =
                                                     Some((pos - 1) % max_seats)])]]
                     S1 == InsertTables(new_tables, cmd.tournament_id, S)
                     started == tournament_start(seated)
                 IN IF started.err # "" THEN Fail(S1, started.err)
                    ELSE Ok([S1 EXCEPT
                               !.tournaments[cmd.tournament_id] = Some(started.t),
                               !.tournament_tables[cmd.tournament_id] =
                                   Some(new_table_ids)],
                            "TournamentState")

RECURSIVE ApplyStakes(_, _, _)
\* give every stored tournament-type table of the list the stakes
ApplyStakes(table_ids, stakes, S) ==
    IF table_ids = <<>> THEN S
    ELSE LET loaded == S.tables[Head(table_ids)]
             S1 == IF IsSome(loaded) /\ Unwrap(loaded).table_type = "Tournament"
                   THEN save_table(S, [Unwrap(loaded) EXCEPT !.stakes = stakes])
                   ELSE S
         IN ApplyStakes(Tail(table_ids), stakes, S1)

\* handle_advance_tournament_level that answers with an error when the blind
\* structure has no next level
handle_advance_tournament_level_strict(S, signer, cmd) ==
    LET auth == ensure_admin(S, signer) IN
    IF auth # "" THEN Fail(S, auth)
    ELSE IF load_tournament(S, cmd.tournament_id) = None
    THEN Fail(S, "TournamentNotFound")
    ELSE LET t0 == Unwrap(load_tournament(S, cmd.tournament_id))
             next_level == t0.current_level + 1
             table_ids == IF S.tournament_tables[cmd.tournament_id] = None THEN <<>>
                          ELSE Unwrap(S.tournament_tables[cmd.tournament_id])
         IN IF ~level_by_number(t0, next_level)
            THEN Fail(S, "Tournament:NoNextLevel")
            ELSE LET tournament == [t0 EXCEPT !.current_level = next_level]
                     stakes == stakes_for_tournament_level(tournament,
                                                           tournament.current_level)
                     S1 == ApplyStakes(table_ids, stakes, S)
                 IN Ok([S1 EXCEPT !.tournaments[cmd.tournament_id] = Some(tournament)],
                       "TournamentState")

handle_advance_tournament_level(S, signer, cmd) ==
    LET auth == ensure_admin(S, signer) IN
    IF auth # "" THEN Fail(S, auth)
    ELSE IF load_tournament(S, cmd.tournament_id) = None
    THEN Fail(S, "TournamentNotFound")
    ELSE LET t0 == Unwrap(load_tournament(S, cmd.tournament_id))
             next_level == t0.current_level + 1
             tournament == IF level_by_number(t0, next_level)
                           THEN [t0 EXCEPT !.current_level = next_level]
                           ELSE t0
             table_ids == IF S.tournament_tables[cmd.tournament_id] = None THEN <<>>
                          ELSE Unwrap(S.tournament_tables[cmd.tournament_id])
             stakes == stakes_for_tournament_level(tournament, tournament.current_level)
         IN IF stakes < 0 THEN Panic(S)
            ELSE LET S1 == ApplyStakes(table_ids, stakes, S)
                 IN Ok([S1 EXCEPT !.tournaments[cmd.tournament_id] = Some(tournament)],
                       "TournamentState")

handle_close_tournament(S, signer, cmd) ==
    LET auth == ensure_admin(S, signer) IN
    IF auth # "" THEN Fail(S, auth)
    ELSE IF load_tournament(S, cmd.tournament_id) = None
    THEN Fail(S, "TournamentNotFound")
    ELSE Ok([S EXCEPT !.tournaments[cmd.tournament_id] =
                Some([Unwrap(load_tournament(S, cmd.tournament_id))
                         EXCEPT !.status = "Finished"])],
            "TournamentState")

-----------------------------------------------------------------------------
(* Commands: one action per command of the router (execute_command) *)

ActionKinds == {"Fold", "Check", "AllIn"}

\* Install the outcome of a handler.  The store a command leaves behind is
\* whatever the handler had written into the views when it returned, also
\* when it returned an error: execute_command turns the error into a
\* response and nothing undoes the writes.  An aborted operation stores
\* nothing.  `who` is the <<signer, player id>> a player command names; it is
\* recorded when the command is applied.
Commit(out, kind, who) ==
    /\ tables' = out.st.tables
    /\ active_hands' = out.st.active_hands
    /\ tournaments' = out.st.tournaments
    /\ tournament_tables' = out.st.tournament_tables
    /\ table_tournament' = out.st.table_tournament
    /\ time_controllers' = out.st.time_controllers
    /\ total_hands_played' = out.st.total_hands_played
    /\ next_hand_id' = out.st.next_hand_id
    /\ base_seed' = out.st.base_seed
    /\ owner' = out.st.owner
    /\ player_names' = out.st.player_names
    /\ player_accounts' = out.st.player_accounts
    /\ account_players' = out.st.account_players
    /\ last' = [kind |-> kind, err |-> out.resp.err, variant |-> out.resp.variant,
                engine |-> out.resp.engine,
                applied_for |-> IF out.resp.err = "" THEN who ELSE None]

CreateTable(U) ==
    \E signer \in U.signers, t \in U.cash_tables, n \in U.max_seats :
        Commit(handle_create_table(Store, signer, [table_id |-> t, max_seats |-> n]),
               "CreateTable", None)

SeatPlayer(U) ==
    \E signer \in U.signers, t \in U.tables, p \in U.players, seat \in U.seats,
       stack \in U.stacks, name \in U.names :
        Commit(handle_seat_player(Store, signer,
                  [table_id |-> t, player_id |-> p, seat_index |-> seat,
                   initial_stack |-> stack, display_name |-> name]),
               "SeatPlayer", Some(<<signer, p>>))

UnseatPlayer(U) ==
    \E signer \in U.signers, t \in U.tables, seat \in U.seats :
        Commit(handle_unseat_player(Store, signer,
                  [table_id |-> t, seat_index |-> seat]),
               "UnseatPlayer", None)

AdjustStack(U) ==
    \E signer \in U.signers, t \in U.tables, seat \in U.seats,
       delta \in U.deltas, overflow_checks \in BOOLEAN :
        Commit(handle_adjust_stack(Store, signer,
                  [table_id |-> t, seat_index |-> seat, delta |-> delta],
                  overflow_checks),
               "AdjustStack", None)

StartHand(U) ==
    \E signer \in U.signers, t \in U.tables :
        LET out == handle_start_hand(Store, signer, [table_id |-> t]) IN
        /\ out.st.next_hand_id <= U.max_hands
        /\ Commit(out, "StartHand", None)

PlayerAction(U) ==
    \E signer \in U.signers, t \in U.tables, p \in U.players, seat \in U.seats,
       kind \in ActionKinds :
        Commit(handle_player_action(Store, signer,
                  [table_id |-> t,
                   action |-> [seat |-> seat, player_id |-> p, kind |-> kind]]),
               "PlayerAction", Some(<<signer, p>>))

TickTable(U) ==
    \E signer \in U.signers, t \in U.tables, secs \in U.secs :
        Commit(handle_tick_table(Store, signer, [table_id |-> t, delta_secs |-> secs]),
               "TickTable", None)

\* PlayerAction and TickTable with the outcome of the storage access of the
\* clock cleanup as an input of the step
PlayerActionStorage(U) ==
    \E signer \in U.signers, t \in U.tables, p \in U.players, seat \in U.seats,
       kind \in ActionKinds, clear_fails \in BOOLEAN :
        Commit(handle_player_action_storage(Store, signer,
                  [table_id |-> t,
                   action |-> [seat |-> seat, player_id |-> p, kind |-> kind]],
                  clear_fails),
               "PlayerAction", Some(<<signer, p>>))

TickTableStorage(U) ==
    \E signer \in U.signers, t \in U.tables, secs \in U.secs,
       clear_fails \in BOOLEAN :
        Commit(handle_tick_table_storage(Store, signer,
                  [table_id |-> t, delta_secs |-> secs], clear_fails),
               "TickTable", None)

CreateTournament(U) ==
    \E signer \in U.signers, t \in U.tournaments, config \in U.configs :
        Commit(handle_create_tournament(Store, signer,
                  [tournament_id |-> t, config |-> config]),
               "CreateTournament", None)

RegisterPlayer(U) ==
    \E signer \in U.signers, t \in U.tournaments, p \in U.players, name \in U.names :
        Commit(handle_register_player_in_tournament(Store, signer,
                  [tournament_id |-> t, player_id |-> p, display_name |-> name]),
               "RegisterPlayer", Some(<<signer, p>>))

UnregisterPlayer(U) ==
    \E signer \in U.signers, t \in U.tournaments, p \in U.players :
        Commit(handle_unregister_player_from_tournament(Store, signer,
                  [tournament_id |-> t, player_id |-> p]),
               "UnregisterPlayer", Some(<<signer, p>>))

StartTournament(U) ==
    \E signer \in U.signers, t \in U.tournaments :
        Commit(handle_start_tournament(Store, signer, [tournament_id |-> t]),
               "StartTournament", None)

AdvanceLevel(U) ==
    \E signer \in U.signers, t \in U.tournaments :
        Commit(handle_advance_tournament_level(Store, signer, [tournament_id |-> t]),
               "AdvanceLevel", None)

CloseTournament(U) ==
    \E signer \in U.signers, t \in U.tournaments :
        Commit(handle_close_tournament(Store, signer, [tournament_id |-> t]),
               "CloseTournament", None)

-----------------------------------------------------------------------------
(* Specifications *)

\* the store right after construction: every view is empty; the owner is the
\* one given to the application, if any
InitStoreSeeded(owners, seeds) ==
    /\ tables = [t \in TableIds |-> None]
    /\ active_hands = [t \in TableIds |-> None]
    /\ tournaments = [t \in TournamentIds |-> None]
    /\ tournament_tables = [t \in TournamentIds |-> None]
    /\ table_tournament = [t \in TableIds |-> None]
    /\ time_controllers = [t \in TableIds |-> None]
    /\ total_hands_played = 0
    /\ next_hand_id = 0
    /\ base_seed \in seeds
    /\ owner \in owners
    /\ player_names = [p \in PlayerIds |-> None]
    /\ player_accounts = [p \in PlayerIds |-> None]
    /\ account_players = [a \in Accounts |-> None]
    /\ last = [kind |-> "", err |-> "", variant |-> "", engine |-> "",
               applied_for |-> None]

\* the base seed is 0 unless the application is given one
InitStore(owners) == InitStoreSeeded(owners, {0})

\* Cash game: one table, the whole table lifecycle, hands and the clock.
UCash ==
    [signers |-> {Some("acctA"), Some("acctB")},
     cash_tables |-> CashTableIds, tables |-> CashTableIds,
     max_seats |-> {2}, players |-> HeadsUp, seats |-> {0, 1},
     stacks |-> {2}, names |-> {""}, deltas |-> {MinDelta},
     secs |-> {1}, max_hands |-> MaxHands, tournaments |-> TournamentIds,
     configs |-> {[table_size |-> 2, num_levels |-> 2, starting_stack |-> 2]}]

Init == InitStore({Some("acctA")})

Next ==
    \/ CreateTable(UCash)
    \/ SeatPlayer(UCash)
    \/ UnseatPlayer(UCash)
    \/ AdjustStack(UCash)
    \/ StartHand(UCash)
    \/ PlayerAction(UCash)
    \/ TickTable(UCash)

Spec == Init /\ [][Next]_vars

\* Identity and administration: callers with and without an account, with
\* and without a configured owner, over the commands that bind a player id
\* and the commands reserved to the owner.
UAuth ==
    [signers |-> Signers,
     cash_tables |-> CashTableIds, tables |-> CashTableIds,
     max_seats |-> {1}, players |-> HeadsUp, seats |-> {0},
     stacks |-> {2}, names |-> DisplayNames, deltas |-> {MaxDelta},
     secs |-> {1}, max_hands |-> MaxHands, tournaments |-> TournamentIds,
     configs |-> {[table_size |-> 2, num_levels |-> 2, starting_stack |-> 2]}]

InitAuth == InitStore({None, Some("acctA")})

NextAuth ==
    \/ CreateTable(UAuth)
    \/ SeatPlayer(UAuth)
    \/ AdjustStack(UAuth)
    \/ CreateTournament(UAuth)
    \/ RegisterPlayer(UAuth)
    \/ UnregisterPlayer(UAuth)
    \/ StartTournament(UAuth)
    \/ AdvanceLevel(UAuth)
    \/ CloseTournament(UAuth)

SpecAuth == InitAuth /\ [][NextAuth]_vars

\* Stack adjustment: one table, one player on up to two seats, every delta of
\* the signed range.
UAdjust ==
    [signers |-> {Some("acctA")},
     cash_tables |-> CashTableIds, tables |-> CashTableIds,
     max_seats |-> {2}, players |-> {1}, seats |-> {0, 1},
     stacks |-> {MaxChips}, names |-> {""}, deltas |-> MinDelta..MaxDelta,
     secs |-> {1}, max_hands |-> MaxHands, tournaments |-> TournamentIds,
     configs |-> {[table_size |-> 2, num_levels |-> 2, starting_stack |-> 2]}]

NextAdjust ==
    \/ CreateTable(UAdjust)
    \/ SeatPlayer(UAdjust)
    \/ AdjustStack(UAdjust)

SpecAdjust == Init /\ [][NextAdjust]_vars

\* Tournament play: registration, start, hands on the tournament tables with
\* the rebalancer after each hand, level advance and close.
UTour ==
    [signers |-> {Some("acctA"), Some("acctB")},
     cash_tables |-> CashTableIds,
     tables |-> {TournamentTableId(t, 0) : t \in TournamentIds},
     max_seats |-> {2}, players |-> HeadsUp, seats |-> {0, 1},
     stacks |-> {2}, names |-> {""}, deltas |-> {MinDelta},
     secs |-> {1}, max_hands |-> MaxHands, tournaments |-> TournamentIds,
     configs |-> {[table_size |-> 2, num_levels |-> 2, starting_stack |-> 2]}]

NextTour ==
    \/ CreateTournament(UTour)
    \/ RegisterPlayer(UTour)
    \/ UnregisterPlayer(UTour)
    \/ StartTournament(UTour)
    \/ AdvanceLevel(UTour)
    \/ CloseTournament(UTour)
    \/ StartHand(UTour)
    \/ PlayerAction(UTour)
    \/ TickTable(UTour)

SpecTour == Init /\ [][NextTour]_vars

\* Seed derivation: several base seeds, two tables, a hand on each; a start
\* the engine refuses uses up a hand id as well.
USeed ==
    [signers |-> {Some("acctA"), Some("acctB")},
     cash_tables |-> {0, 1}, tables |-> {0, 1},
     max_seats |-> {2}, players |-> HeadsUp, seats |-> {0, 1},
     stacks |-> {2}, names |-> {""}, deltas |-> {MinDelta},
     secs |-> {1}, max_hands |-> MaxSeedHands, tournaments |-> TournamentIds,
     configs |-> {[table_size |-> 2, num_levels |-> 2, starting_stack |-> 2]}]

InitSeed == InitStoreSeeded({Some("acctA")}, 0..MaxSeed)

NextSeed ==
    \/ CreateTable(USeed)
    \/ SeatPlayer(USeed)
    \/ StartHand(USeed)

SpecSeed == InitSeed /\ [][NextSeed]_vars

\* Hand play on one cash table with a single caller: seating, hands, player
\* actions and clock ticks.
UHand ==
    [signers |-> {Some("acctA")},
     cash_tables |-> CashTableIds, tables |-> CashTableIds,
     max_seats |-> {2}, players |-> HeadsUp, seats |-> {0, 1},
     stacks |-> {2}, names |-> {""}, deltas |-> {MinDelta},
     secs |-> {1}, max_hands |-> MaxHands, tournaments |-> TournamentIds,
     configs |-> {[table_size |-> 2, num_levels |-> 2, starting_stack |-> 2]}]

NextHand ==
    \/ CreateTable(UHand)
    \/ SeatPlayer(UHand)
    \/ StartHand(UHand)
    \/ PlayerAction(UHand)
    \/ TickTable(UHand)

SpecHand == Init /\ [][NextHand]_vars

\* Seating on one cash table: two callers, every seat index up to one past
\* the last seat, two stacks.
USeat ==
    [signers |-> {Some("acctA"), Some("acctB")},
     cash_tables |-> CashTableIds, tables |-> CashTableIds,
     max_seats |-> {2}, players |-> HeadsUp, seats |-> {0, 1, 2},
     stacks |-> {1, 2}, names |-> {""}, deltas |-> {MinDelta},
     secs |-> {1}, max_hands |-> MaxHands, tournaments |-> TournamentIds,
     configs |-> {[table_size |-> 2, num_levels |-> 2, starting_stack |-> 2]}]

NextSeat ==
    \/ CreateTable(USeat)
    \/ SeatPlayer(USeat)
    \/ UnseatPlayer(USeat)

SpecSeat == Init /\ [][NextSeat]_vars

\* Hand play on one cash table where the storage access of the clock cleanup
\* may fail.
NextStorage ==
    \/ CreateTable(UHand)
    \/ SeatPlayer(UHand)
    \/ StartHand(UHand)
    \/ PlayerActionStorage(UHand)
    \/ TickTableStorage(UHand)

SpecStorage == Init /\ [][NextStorage]_vars

\* Three-handed tournament play: three accounts register one player each, the
\* owner starts the tournament (one table of three), and a hand is played on
\* it with actions and clock ticks.
URegisterThree ==
    [signers |-> {Some(a) : a \in ThreeAccounts},
     cash_tables |-> {},
     tables |-> {TournamentTableId(t, 0) : t \in TournamentIds},
     max_seats |-> {3}, players |-> ThreePlayers, seats |-> {0, 1, 2},
     stacks |-> {2}, names |-> {""}, deltas |-> {MinDelta},
     secs |-> {1}, max_hands |-> MaxHands, tournaments |-> TournamentIds,
     configs |-> {[table_size |-> 3, num_levels |-> 2, starting_stack |-> 2]}]

UThree == [URegisterThree EXCEPT !.signers = {Some("acctA")}]

NextThree ==
    \/ CreateTournament(UThree)
    \/ RegisterPlayer(URegisterThree)
    \/ StartTournament(UThree)
    \/ StartHand(UThree)
    \/ PlayerAction(UThree)
    \/ TickTable(UThree)

SpecThree == Init /\ [][NextThree]_vars

\* Two-table tournament: three accounts register one player each, the owner
\* starts it (two players at the first table, one at the second), a hand is
\* played at the first table, and a player may be unseated meanwhile.
URegister ==
    [signers |-> {Some(a) : a \in ThreeAccounts},
     cash_tables |-> {},
     tables |-> {TournamentTableId(t, k) : t \in TournamentIds, k \in {0, 1}},
     max_seats |-> {2}, players |-> ThreePlayers, seats |-> {0, 1},
     stacks |-> {2}, names |-> {""}, deltas |-> {MinDelta},
     secs |-> {1}, max_hands |-> MaxHands, tournaments |-> TournamentIds,
     configs |-> {[table_size |-> 2, num_levels |-> 2, starting_stack |-> 2]}]

UBalance == [URegister EXCEPT !.signers = {Some("acctA")}]

NextBalance ==
    \/ CreateTournament(UBalance)
    \/ RegisterPlayer(URegister)
    \/ StartTournament(UBalance)
    \/ UnseatPlayer(UBalance)
    \/ StartHand(UBalance)
    \/ PlayerAction(UBalance)

SpecBalance == Init /\ [][NextBalance]_vars

\* Heads-up tournament in which the owner may take chips off a seated player
\* while a hand is played.
UChips ==
    [signers |-> {Some("acctA"), Some("acctB")},
     cash_tables |-> {},
     tables |-> {TournamentTableId(t, 0) : t \in TournamentIds},
     max_seats |-> {2}, players |-> HeadsUp, seats |-> {0, 1},
     stacks |-> {2}, names |-> {""}, deltas |-> {0 - 2},
     secs |-> {1}, max_hands |-> MaxHands, tournaments |-> TournamentIds,
     configs |-> {[table_size |-> 2, num_levels |-> 2, starting_stack |-> 2]}]

NextChips ==
    \/ CreateTournament(UChips)
    \/ RegisterPlayer(UChips)
    \/ StartTournament(UChips)
    \/ AdjustStack(UChips)
    \/ StartHand(UChips)
    \/ PlayerAction(UChips)

SpecChips == Init /\ [][NextChips]_vars

\* A cash table and a tournament side by side: the cash table has the id
\* that the first table of the tournament is given.
UIds ==
    [signers |-> {Some("acctA"), Some("acctB")},
     cash_tables |-> {TournamentTableId(t, 0) : t \in TournamentIds},
     tables |-> {TournamentTableId(t, 0) : t \in TournamentIds},
     max_seats |-> {2}, players |-> HeadsUp, seats |-> {0, 1},
     stacks |-> {1}, names |-> {""}, deltas |-> {MinDelta},
     secs |-> {1}, max_hands |-> MaxHands, tournaments |-> TournamentIds,
     configs |-> {[table_size |-> 2, num_levels |-> 2, starting_stack |-> 2]}]

NextIds ==
    \/ CreateTable(UIds)
    \/ SeatPlayer(UIds)
    \/ StartHand(UIds)
    \/ CreateTournament(UIds)
    \/ RegisterPlayer(UIds)
    \/ StartTournament(UIds)

SpecIds == Init /\ [][NextIds]_vars

\* Two full tables: four accounts register one player each (account k its
\* player k), the owner starts the tournament (two tables of two), and a hand
\* is played at each table, both at the same time.
UTwoTables ==
    [signers |-> {Some("acctA")},
     cash_tables |-> {},
     tables |-> {TournamentTableId(t, k) : t \in TournamentIds, k \in {0, 1}},
     max_seats |-> {2}, players |-> PlayerIds, seats |-> {0, 1},
     stacks |-> {2}, names |-> {""}, deltas |-> {MinDelta},
     secs |-> {1}, max_hands |-> MaxHands + 1, tournaments |-> TournamentIds,
     configs |-> {[table_size |-> 2, num_levels |-> 2, starting_stack |-> 2]}]

URegisterAs(account, player) ==
    [UTwoTables EXCEPT !.signers = {Some(account)}, !.players = {player}]

NextTwoTables ==
    \/ CreateTournament(UTwoTables)
    \/ RegisterPlayer(URegisterAs("acctA", 1))
    \/ RegisterPlayer(URegisterAs("acctB", 2))
    \/ RegisterPlayer(URegisterAs("acctC", 3))
    \/ RegisterPlayer(URegisterAs("acctD", 4))
    \/ StartTournament(UTwoTables)
    \/ StartHand(UTwoTables)
    \/ PlayerAction(UTwoTables)

SpecTwoTables == Init /\ [][NextTwoTables]_vars

-----------------------------------------------------------------------------
(* Properties: the table state machine *)

HandInProgress(S, t) == IsSome(S.tables[t]) /\ Unwrap(S.tables[t]).hand_in_progress

SeatArgs == {0, 1, 2}

\* C1: every stored table is Idle or InHand: its hand_in_progress flag is
\* true exactly when a hand snapshot is stored for it.
C1_IdleOrInHand ==
    \A t \in TableIds :
        IsSome(tables[t]) =>
            (Unwrap(tables[t]).hand_in_progress
                <=> IsSome(load_active_snapshot(Store, t)))

\* a hand that has been started and acted on, and is still in progress
C1_Witness ==
    /\ last.kind = "PlayerAction"
    /\ last.engine = "Ongoing"
    /\ \E t \in TableIds :
          HandInProgress(Store, t) /\ IsSome(load_active_snapshot(Store, t))

SlotEmptyAndIdle(S, t) ==
    /\ load_active_snapshot(S, t) = None
    /\ ~HandInProgress(S, t)

\* C3: a PlayerAction, or a TickTable that times a player out, for which the
\* engine reports the hand finished leaves the table's snapshot slot empty
\* and its hand_in_progress flag false.
C3_FinishedLeavesIdle ==
    \A t \in TableIds :
        (IsSome(tables[t]) /\ IsSome(load_active_snapshot(Store, t))) =>
            /\ \A signer \in Signers, p \in HeadsUp, seat \in SeatArgs,
                  kind \in ActionKinds :
                  LET out == handle_player_action(Store, signer,
                                [table_id |-> t,
                                 action |-> [seat |-> seat, player_id |-> p,
                                             kind |-> kind]])
                  IN out.resp.engine = "Finished" => SlotEmptyAndIdle(out.st, t)
            /\ \A signer \in Signers, secs \in 0..TimeBankSecs :
                  LET out == handle_tick_table(Store, signer,
                                [table_id |-> t, delta_secs |-> secs])
                  IN out.resp.engine = "Finished" => SlotEmptyAndIdle(out.st, t)

\* a tick has timed the actor out and the forced fold finished the hand
C3_Witness ==
    /\ last.kind = "TickTable"
    /\ last.engine = "Finished"
    /\ total_hands_played > 0
    /\ \A t \in TableIds : SlotEmptyAndIdle(Store, t)

\* C4: on every stored table no player id occupies two seats.
C4_SeatsInjective ==
    \A t \in TableIds :
        IsSome(tables[t]) =>
            LET seats == Unwrap(tables[t]).seats
            IN \A i, j \in DOMAIN seats :
                  (i # j /\ IsSome(seats[i]) /\ IsSome(seats[j]))
                      => Unwrap(seats[i]).player_id # Unwrap(seats[j]).player_id

-----------------------------------------------------------------------------
(* Properties: identity binding and administration *)

TournamentConfigs == UAuth.configs

\* the player commands of caller `signer` naming player id q all fail with
\* PlayerIdMismatch
MismatchRejected(signer, q) ==
    /\ \A t \in TableIds, seat \in SeatArgs, stack \in {0, MaxChips},
          name \in DisplayNames :
          handle_seat_player(Store, signer,
              [table_id |-> t, player_id |-> q, seat_index |-> seat,
               initial_stack |-> stack, display_name |-> name]).resp.err
            = "PlayerIdMismatch"
    /\ \A t \in TournamentIds, name \in DisplayNames :
          handle_register_player_in_tournament(Store, signer,
              [tournament_id |-> t, player_id |-> q, display_name |-> name]).resp.err
            = "PlayerIdMismatch"
    /\ \A t \in TournamentIds :
          handle_unregister_player_from_tournament(Store, signer,
              [tournament_id |-> t, player_id |-> q]).resp.err
            = "PlayerIdMismatch"

\* C5: once a caller is bound to player id p, its SeatPlayer, RegisterPlayer
\* and UnregisterPlayer naming another id fail with PlayerIdMismatch, and the
\* id recorded for the caller never changes.
C5_BindingIsPermanent ==
    /\ [](\A a \in Accounts :
            IsSome(account_players[a]) =>
                \A q \in PlayerIds \ {Unwrap(account_players[a])} :
                    MismatchRejected(Some(a), q))
    /\ [][\A a \in Accounts :
            IsSome(account_players[a]) => account_players'[a] = account_players[a]]_vars

\* a bound caller has named another player id and has been rejected
C5_Witness ==
    /\ last.kind = "UnregisterPlayer"
    /\ last.err = "PlayerIdMismatch"
    /\ \E a \in Accounts : IsSome(account_players[a])

\* C6: no player id is bound to two callers: account_players and
\* player_accounts are mutual inverses.
C6_BindingsInverse ==
    \A a \in Accounts, p \in PlayerIds :
        (account_players[a] = Some(p)) <=> (player_accounts[p] = Some(a))

\* C7: a player command that has been applied was applied on behalf of the
\* player id bound to the caller that signed it.
C7_ActsOnlyAsBound ==
    IsSome(last.applied_for) =>
        LET signer == Unwrap(last.applied_for)[1]
            p == Unwrap(last.applied_for)[2]
        IN IsSome(signer) /\ account_players[Unwrap(signer)] = Some(p)

\* the outcome of an admin-only command is the error `err` and the store is
\* untouched, whatever the arguments
AdminRefused(signer, err) ==
    LET Refused(out) == out.resp.err = err /\ out.st = Store IN
    /\ \A t \in TableIds, n \in 0..2 :
          Refused(handle_create_table(Store, signer,
                      [table_id |-> t, max_seats |-> n]))
    /\ \A t \in TableIds, seat \in SeatArgs, delta \in {MinDelta, 0, MaxDelta},
          overflow_checks \in BOOLEAN :
          Refused(handle_adjust_stack(Store, signer,
                      [table_id |-> t, seat_index |-> seat, delta |-> delta],
                      overflow_checks))
    /\ \A t \in TournamentIds, config \in TournamentConfigs :
          Refused(handle_create_tournament(Store, signer,
                      [tournament_id |-> t, config |-> config]))
    /\ \A t \in TournamentIds :
          /\ Refused(handle_start_tournament(Store, signer, [tournament_id |-> t]))
          /\ Refused(handle_advance_tournament_level(Store, signer,
                         [tournament_id |-> t]))
          /\ Refused(handle_close_tournament(Store, signer, [tournament_id |-> t]))

\* C8: the admin-only commands fail Unauthenticated without a caller and
\* Unauthorized for a caller that is not the configured owner (also when no
\* owner is configured), and change nothing in the store.
C8_AdminOnly ==
    \A signer \in Signers :
        /\ signer = None => AdminRefused(signer, "Unauthenticated")
        /\ (signer # None /\ signer # owner) => AdminRefused(signer, "Unauthorized")

\* an authenticated caller has been refused while no owner is configured
C8_Witness ==
    /\ owner = None
    /\ last.kind = "CloseTournament"
    /\ last.err = "Unauthorized"

-----------------------------------------------------------------------------
(* Properties: stack adjustment *)

Clamp(x) == IF x < 0 THEN 0 ELSE IF x > MaxChips THEN MaxChips ELSE x

\* C9: a successful AdjustStack of a seated stack S by a signed delta D
\* leaves the stack at max(0, S + D) clamped to the largest stack: never
\* below zero, never wrapped, zero when the decrease exceeds the stack.
C9_AdjustSaturates ==
    \A t \in TableIds, seat \in SeatArgs, delta \in MinDelta..MaxDelta,
       overflow_checks \in BOOLEAN :
        (IsSome(tables[t]) /\ seat \in DOMAIN Unwrap(tables[t]).seats
           /\ IsSome(Unwrap(tables[t]).seats[seat])) =>
            LET stack == Unwrap(Unwrap(tables[t]).seats[seat]).stack
                out == handle_adjust_stack(Store, owner,
                          [table_id |-> t, seat_index |-> seat, delta |-> delta],
                          overflow_checks)
            IN /\ out.resp.err = "" =>
                      Unwrap(Unwrap(out.st.tables[t]).seats[seat]).stack
                          = Clamp(stack + delta)
               /\ contract_adjusted_stack(stack, delta) = Clamp(stack + delta)

\* a stack seated at the largest value has been adjusted down to zero
C9_Witness ==
    /\ last.kind = "AdjustStack"
    /\ last.err = ""
    /\ \E t \in TableIds :
          /\ IsSome(tables[t])
          /\ \E seat \in DOMAIN Unwrap(tables[t]).seats :
                /\ IsSome(Unwrap(tables[t]).seats[seat])
                /\ Unwrap(Unwrap(tables[t]).seats[seat]).stack = 0

-----------------------------------------------------------------------------
(* Properties: atomicity of a command *)

\* C10: a command that returns an error response leaves the whole store as
\* it was before the command.
C10_AllOrNothing == [][last'.err # "" => UNCHANGED storeVars]_vars

-----------------------------------------------------------------------------
(* Properties: failures of PlayerAction *)

PlayerActionCmd(t, p, seat, kind) ==
    [table_id |-> t, action |-> [seat |-> seat, player_id |-> p, kind |-> kind]]

-----------------------------------------------------------------------------
(* Properties: responses *)

\* C13: every command ends with a response: no command aborts the operation.
C13_NeverAborts == last.variant # "Panic"

\* the response variants successful commands return
SuccessVariants == {"TableCreated", "TableState", "HandFinished", "TournamentState"}

\* C14: an error is never returned in a response variant that a successful
\* command returns too.
C14_ErrorVariantDistinct == last.err # "" => last.variant \notin SuccessVariants

-----------------------------------------------------------------------------
(* Properties: seed derivation *)

-----------------------------------------------------------------------------
(* Properties: the tournament rebalancer *)

Running(S, id) ==
    IsSome(S.tournaments[id]) /\ Unwrap(S.tournaments[id]).status = "Running"

RECURSIVE SumChips(_, _)
\* total_chips of the registrations of the players ps, added up
SumChips(tour, ps) ==
    IF ps = {} THEN 0
    ELSE LET p == CHOOSE x \in ps : TRUE
         IN Unwrap(tour.registrations[p]).total_chips + SumChips(tour, ps \ {p})

\* the tables the store lists for the tournament and still holds
ListedTables(S, id) ==
    IF S.tournament_tables[id] = None THEN {}
    ELSE {tid \in SeqToSet(Unwrap(S.tournament_tables[id])) : IsSome(S.tables[tid])}

\* the seats <<table, seat>> of the tournament's stored tables that hold p
TournamentSeatsOf(S, id, p) ==
    UNION {{<<tid, i>> : i \in {j \in DOMAIN Unwrap(S.tables[tid]).seats :
                                  /\ IsSome(Unwrap(S.tables[tid]).seats[j])
                                  /\ Unwrap(Unwrap(S.tables[tid]).seats[j]).player_id = p}} :
              tid \in ListedTables(S, id)}

\* the players in the seats of a table
PlayersAt(table) ==
    {Unwrap(table.seats[i]).player_id :
        i \in {j \in DOMAIN table.seats : IsSome(table.seats[j])}}

\* a hand is being played at table t of the running tournament id
TournamentHandAt(id, t) ==
    /\ Running(Store, id)
    /\ table_tournament_id(Store, t) = Some(id)
    /\ IsSome(tables[t])
    /\ IsSome(load_active_snapshot(Store, t))

\* C16: when a PlayerAction finishes a hand of a Running tournament, the
\* rebalancer that runs after it leaves the sum of total_chips over the
\* registrations that are non-busted afterwards as it was before.
C16_RebalanceConservesChips ==
    \A id \in TournamentIds, t \in TableIds :
        TournamentHandAt(id, t) =>
            \A signer \in Signers, p \in PlayerIds, seat \in SeatArgs,
               kind \in ActionKinds :
                LET out == handle_player_action(Store, signer,
                                                PlayerActionCmd(t, p, seat, kind))
                    before == Unwrap(tournaments[id])
                    after == Unwrap(out.st.tournaments[id])
                IN (out.resp.err = "" /\ out.resp.engine = "Finished") =>
                      SumChips(after, ActiveRegs(after))
                          = SumChips(before, ActiveRegs(after))

\* C17: when a PlayerAction finishes a hand of a Running tournament and the
\* tournament is still Running after the rebalancer, every non-busted
\* registered player sits in exactly one seat of the tournament's stored
\* tables.
C17_SurvivorsSeatedOnce ==
    \A id \in TournamentIds, t \in TableIds :
        TournamentHandAt(id, t) =>
            \A signer \in Signers, p \in PlayerIds, seat \in SeatArgs,
               kind \in ActionKinds :
                LET out == handle_player_action(Store, signer,
                                                PlayerActionCmd(t, p, seat, kind))
                IN (/\ out.resp.err = ""
                    /\ out.resp.engine = "Finished"
                    /\ Running(out.st, id)) =>
                      \A q \in ActiveRegs(Unwrap(out.st.tournaments[id])) :
                          Cardinality(TournamentSeatsOf(out.st, id, q)) = 1

-----------------------------------------------------------------------------
(* Properties: the clock *)

\* the player whose turn the stored controller of table t is timing
ArmedPlayer(S, t) ==
    IF S.time_controllers[t] = None THEN None
    ELSE Unwrap(S.time_controllers[t]).current_turn

\* C19: a TickTable that takes the armed player's time bank to zero during a
\* hand applies one forced fold for that player (the command succeeds and the
\* player's seat is out of the hand), and leaves the controller no longer
\* timing that player, so that no later TickTable forces a second action for
\* the same exhaustion.
C19_OneForcedFold ==
    \A t \in TableIds :
        (/\ IsSome(tables[t])
         /\ IsSome(load_active_snapshot(Store, t))
         /\ IsSome(ArmedPlayer(Store, t))) =>
            \A signer \in Signers, secs \in 0..TimeBankSecs :
                LET q == Unwrap(ArmedPlayer(Store, t))
                    d == on_time_passed(Unwrap(time_controllers[t]), secs)
                    out == handle_tick_table(Store, signer,
                                             [table_id |-> t, delta_secs |-> secs])
                    seat == find_seat_by_player(Store, t, q)
                IN d.timeout = Some(q) =>
                      /\ out.resp.err = ""
                      /\ out.resp.engine \in {"Ongoing", "Finished"}
                      /\ IsSome(seat)
                      /\ out.resp.engine = "Ongoing" =>
                            Unwrap(seat) \notin
                                Unwrap(load_active_snapshot(out.st, t)).in_hand
                      /\ ArmedPlayer(out.st, t) # Some(q)

-----------------------------------------------------------------------------
(* Properties: the returned view *)

\* the view in a successful response is the one a query for table t returns
\* from the store the command leaves behind
ViewIsStored(out, t) ==
    out.resp.err = "" => out.resp.view = query_table(out.st, t)

\* C20: the table view a successful table command returns equals the view the
\* query path projects from the stored table and the stored hand snapshot
\* right after the command, also when the hand has just finished and when the
\* rebalancer has moved or removed players.
C20_ReturnedViewIsStoredView ==
    \A t \in TableIds :
        IsSome(tables[t]) =>
            /\ \A signer \in Signers, p \in PlayerIds, seat \in SeatArgs,
                  kind \in ActionKinds :
                  ViewIsStored(handle_player_action(
                                   Store, signer, PlayerActionCmd(t, p, seat, kind)), t)
            /\ \A signer \in Signers, secs \in 0..TimeBankSecs :
                  ViewIsStored(handle_tick_table(
                                   Store, signer,
                                   [table_id |-> t, delta_secs |-> secs]), t)
            /\ \A signer \in Signers :
                  ViewIsStored(handle_start_hand(Store, signer, [table_id |-> t]), t)
            /\ \A signer \in Signers, seat \in SeatArgs :
                  ViewIsStored(handle_unseat_player(
                                   Store, signer,
                                   [table_id |-> t, seat_index |-> seat]), t)

-----------------------------------------------------------------------------
(* Properties: the tournament status *)

\* position of a status on the path Registering, Running, Finished
StatusRank(status) ==
    CASE status = "Registering" -> 0
      [] status = "Running" -> 1
      [] status = "Finished" -> 2

TournamentStatus(S, id) == Unwrap(S.tournaments[id]).status

\* C21: over every step of every command, a stored tournament stays stored
\* and its status never moves back on the path Registering, Running,
\* Finished; in particular a Finished tournament stays Finished.
C21_StatusMovesForward ==
    [][\A id \in TournamentIds :
          IsSome(tournaments[id]) =>
              /\ IsSome(tournaments'[id])
              /\ StatusRank(Unwrap(tournaments'[id]).status)
                     >= StatusRank(Unwrap(tournaments[id]).status)]_vars

\* StartTournament has been refused on a tournament that is Finished
C21_Witness ==
    /\ last.kind = "StartTournament"
    /\ last.err = "Tournament:InvalidStatus"
    /\ \E id \in TournamentIds :
          /\ IsSome(tournaments[id])
          /\ TournamentStatus(Store, id) = "Finished"

-----------------------------------------------------------------------------
(* Properties: the tournament-table index *)

\* the stored tables that seat a registered player of the tournament
TablesSeating(S, id) ==
    {t \in TableIds :
        /\ IsSome(S.tables[t])
        /\ PlayersAt(Unwrap(S.tables[t]))
               \cap Registered(Unwrap(S.tournaments[id])) # {}}

\* C22: the table list of a stored tournament holds exactly the stored
\* tables that seat at least one of its players, and a table is bound to the
\* tournament in table_tournament exactly when it is in that list.
C22_IndexListsSeatingTables ==
    \A id \in TournamentIds :
        (IsSome(tournaments[id]) /\ IsSome(tournament_tables[id])) =>
            LET listed == SeqToSet(Unwrap(tournament_tables[id]))
            IN /\ listed = TablesSeating(Store, id)
               /\ \A t \in TableIds :
                     (table_tournament[t] = Some(id)) <=> (t \in listed)

-----------------------------------------------------------------------------
(* Properties: seating *)

SeatPlayerCmd(t, p, seat, stack, name) ==
    [table_id |-> t, player_id |-> p, seat_index |-> seat,
     initial_stack |-> stack, display_name |-> name]

\* the table map with seat `seat` of table t holding player p with the stack
SeatedAt(tbls, t, seat, p, stack) ==
    [tbls EXCEPT ![t] =
        Some([Unwrap(tbls[t]) EXCEPT !.seats[seat] = Some([player_id |-> p,
                                                           stack |-> stack])])]

-----------------------------------------------------------------------------
(* Properties: the forced fold *)

\* C24: when the clock of table t runs out for player X during a hand and X
\* sits at the table, TickTable leaves the same stored tables, hand
\* snapshots, tournament records and tournament table lists, and returns the
\* same kind of response, as a PlayerAction with a Fold for X at X's seat
\* applied in the same state.
C24_TimeoutIsFold ==
    \A t \in TableIds :
        (IsSome(tables[t]) /\ IsSome(load_active_snapshot(Store, t))) =>
            \A signer \in Signers, secs \in 0..TimeBankSecs :
                LET d == on_time_passed(
                             ensure_time_controller(Store, Unwrap(tables[t])), secs)
                    X == Unwrap(d.timeout)
                    seat == find_seat_by_player(Store, t, X)
                    tick == handle_tick_table(Store, signer,
                                              [table_id |-> t, delta_secs |-> secs])
                    fold == handle_player_action(
                                Store, signer,
                                PlayerActionCmd(t, X, Unwrap(seat), "Fold"))
                IN (IsSome(d.timeout) /\ IsSome(seat)) =>
                      /\ tick.st.tables = fold.st.tables
                      /\ tick.st.active_hands = fold.st.active_hands
                      /\ tick.st.tournaments = fold.st.tournaments
                      /\ tick.st.tournament_tables = fold.st.tournament_tables
                      /\ tick.resp.variant = fold.resp.variant
                      /\ tick.resp.err = fold.resp.err

\* a TickTable has forced a fold on a tournament table and the hand goes on
\* between the two players left
C24_Witness ==
    /\ last.kind = "TickTable"
    /\ last.err = ""
    /\ last.engine = "Ongoing"
    /\ \E id \in TournamentIds, t \in TableIds :
          /\ TournamentHandAt(id, t)
          /\ Cardinality(Unwrap(load_active_snapshot(Store, t)).in_hand) = 2

-----------------------------------------------------------------------------
(* Properties: a tick without a timeout *)

\* C25: a TickTable on a stored table with a hand in progress that yields no
\* timeout succeeds, stores the time controller the tick produced and leaves
\* every other part of the store (tables, snapshots, tournaments and the
\* rest) as it was; a TickTable on a stored table with no hand in progress
\* succeeds and leaves the whole store as it was.
C25_TickWithoutTimeout ==
    \A t \in TableIds :
        IsSome(tables[t]) =>
            \A signer \in Signers, secs \in 0..TimeBankSecs :
                LET d == on_time_passed(
                             ensure_time_controller(Store, Unwrap(tables[t])), secs)
                    out == handle_tick_table(Store, signer,
                                             [table_id |-> t, delta_secs |-> secs])
                IN IF load_active_snapshot(Store, t) = None
                   THEN out.resp.err = "" /\ out.st = Store
                   ELSE d.timeout = None =>
                           /\ out.resp.err = ""
                           /\ out.st = [Store EXCEPT
                                           !.time_controllers[t] = Some(d.ctrl)]

\* a tick has taken time off the bank of the player on the clock of a
\* tournament table, and the hand is still waiting for that player
C25_Witness ==
    /\ last.kind = "TickTable"
    /\ last.err = ""
    /\ last.engine = ""
    /\ \E id \in TournamentIds, t \in TableIds :
          /\ TournamentHandAt(id, t)
          /\ IsSome(ArmedPlayer(Store, t))
          /\ Unwrap(time_controllers[t]).banks[Unwrap(ArmedPlayer(Store, t))]
                 = Some(TimeBankSecs - 1)

-----------------------------------------------------------------------------
(* Properties: the clock and the player to act *)

\* C26: for every stored table with a stored hand snapshot, the player the
\* time controller is timing is the occupant of the seat the snapshot names
\* as current actor, and nobody is timed when the snapshot names no actor.
C26_ClockFollowsActor ==
    \A t \in TableIds :
        (IsSome(tables[t]) /\ IsSome(load_active_snapshot(Store, t))) =>
            LET table == Unwrap(tables[t])
                actor == Unwrap(load_active_snapshot(Store, t)).current_actor
            IN IF actor = None THEN ArmedPlayer(Store, t) = None
               ELSE /\ Unwrap(actor) \in DOMAIN table.seats
                    /\ IsSome(table.seats[Unwrap(actor)])
                    /\ ArmedPlayer(Store, t)
                          = Some(Unwrap(table.seats[Unwrap(actor)]).player_id)

-----------------------------------------------------------------------------
(* Properties: the clock between hands *)

\* C27: a stored table with no hand in progress (no stored snapshot) has no
\* armed clock: its time controller is absent or has no current turn.
C27_IdleTableHasNoArmedClock ==
    \A t \in TableIds :
        (IsSome(tables[t]) /\ load_active_snapshot(Store, t) = None) =>
            ArmedPlayer(Store, t) = None

-----------------------------------------------------------------------------
(* Properties: a failed clock cleanup *)

\* the command has succeeded with the hand finished and its outcome stored:
\* the table the engine left is saved, idle, and the snapshot slot is empty
OutcomePersisted(out, t, reference) ==
    /\ out.resp.err = ""
    /\ out.resp.variant = "HandFinished"
    /\ out.st.tables = reference.st.tables
    /\ ~Unwrap(out.st.tables[t]).hand_in_progress
    /\ out.st.active_hands[t] = Some(None)

\* C28: when a PlayerAction or a timed-out TickTable finishes a hand and the
\* clearing of the time controller's current turn fails, the command
\* succeeds all the same, with the response it gives when the clearing
\* works, the finished table saved and the snapshot slot emptied.
C28_ClockFailureIsSwallowed ==
    \A t \in TableIds :
        (IsSome(tables[t]) /\ IsSome(load_active_snapshot(Store, t))) =>
            /\ \A signer \in Signers, p \in HeadsUp, seat \in SeatArgs,
                  kind \in ActionKinds :
                  LET cmd == PlayerActionCmd(t, p, seat, kind)
                      good == handle_player_action(Store, signer, cmd)
                      bad == handle_player_action_storage(Store, signer, cmd, TRUE)
                  IN (good.resp.err = "" /\ good.resp.engine = "Finished") =>
                        OutcomePersisted(bad, t, good)
            /\ \A signer \in Signers, secs \in 0..TimeBankSecs :
                  LET cmd == [table_id |-> t, delta_secs |-> secs]
                      good == handle_tick_table(Store, signer, cmd)
                      bad == handle_tick_table_storage(Store, signer, cmd, TRUE)
                  IN (good.resp.err = "" /\ good.resp.engine = "Finished") =>
                        OutcomePersisted(bad, t, good)

\* a hand has finished with a successful response while the clock cleanup
\* failed: the table is idle and its controller still has a current turn
C28_Witness ==
    /\ last.err = ""
    /\ last.engine = "Finished"
    /\ last.variant = "HandFinished"
    /\ \E t \in TableIds :
          /\ IsSome(tables[t])
          /\ ~Unwrap(tables[t]).hand_in_progress
          /\ active_hands[t] = Some(None)
          /\ IsSome(ArmedPlayer(Store, t))

-----------------------------------------------------------------------------
(* Properties: reclaiming empty tables *)

\* the table ids the store lists for the tournament
ListedIds(S, id) ==
    IF S.tournament_tables[id] = None THEN {}
    ELSE SeqToSet(Unwrap(S.tournament_tables[id]))

\* table t has no entry in any of the four stores and is not listed
FullyRemoved(S, id, t) ==
    /\ S.tables[t] = None
    /\ S.active_hands[t] = None
    /\ S.table_tournament[t] = None
    /\ S.time_controllers[t] = None
    /\ t \notin ListedIds(S, id)

\* the state a run of the rebalancer must leave: no table the tournament
\* listed before the run is stored without an occupant, and every table of
\* the new list is stored with one
EmptyTablesReclaimed(S, before, id) ==
    /\ \A t \in ListedIds(before, id) :
          (S.tables[t] = None \/ seated_count(Unwrap(S.tables[t])) = 0) =>
              FullyRemoved(S, id, t)
    /\ \A t \in ListedIds(S, id) :
          IsSome(S.tables[t]) /\ seated_count(Unwrap(S.tables[t])) >= 1

\* C29: when a PlayerAction finishes a hand at a table of a tournament that
\* is Running, the rebalancer that runs after it leaves every table of the
\* tournament's list that has no occupant without an entry in tables,
\* active_hands, table_tournament and time_controllers and out of the list,
\* and every table still in the list has at least one occupant.
C29_EmptyTablesReclaimed ==
    \A id \in TournamentIds, t \in TableIds :
        TournamentHandAt(id, t) =>
            \A signer \in Signers, p \in PlayerIds, seat \in SeatArgs,
               kind \in ActionKinds :
                LET out == handle_player_action(Store, signer,
                                                PlayerActionCmd(t, p, seat, kind))
                IN (out.resp.err = "" /\ out.resp.engine = "Finished") =>
                      EmptyTablesReclaimed(out.st, Store, id)

\* a finished hand has left a table of a Running tournament empty and the
\* rebalancer has removed it from the four stores, while another table of
\* the tournament is still listed and occupied
C29_Witness ==
    /\ last.kind = "PlayerAction"
    /\ last.err = ""
    /\ last.engine = "Finished"
    /\ \E id \in TournamentIds, gone \in TableIds, kept \in TableIds :
          /\ Running(Store, id)
          /\ FullyRemoved(Store, id, gone)
          /\ gone = TournamentTableId(id, 0)
          /\ kept \in ListedIds(Store, id)
          /\ IsSome(tables[kept])
          /\ seated_count(Unwrap(tables[kept])) >= 1

-----------------------------------------------------------------------------
(* Properties: registrations and seats *)

\* seat `seat` of the stored table `tid` holds player q
SeatHolds(S, tid, seat, q) ==
    /\ tid \in TableIds
    /\ IsSome(S.tables[tid])
    /\ seat \in DOMAIN Unwrap(S.tables[tid]).seats
    /\ IsSome(Unwrap(S.tables[tid]).seats[seat])
    /\ Unwrap(Unwrap(S.tables[tid]).seats[seat]).player_id = q

\* the registrations of tournament id agree with the seats of the store S;
\* `before` is the tournament record before the run
RegistrationsMatchSeats(S, before, id) ==
    LET after == Unwrap(S.tournaments[id])
    IN \A q \in ActiveRegs(after) :
          LET reg == Unwrap(after.registrations[q])
          IN /\ (IsSome(reg.table_id) /\ IsSome(reg.seat_index)) =>
                    SeatHolds(S, Unwrap(reg.table_id), Unwrap(reg.seat_index), q)
             /\ (IsSome(reg.table_id)
                  /\ reg.table_id # Unwrap(before.registrations[q]).table_id) =>
                    /\ IsSome(S.tables[Unwrap(reg.table_id)])
                    /\ q \in PlayersAt(Unwrap(S.tables[Unwrap(reg.table_id)]))

\* C30: when a PlayerAction finishes a hand at a table of a Running
\* tournament, the rebalancer that runs after it leaves every non-busted
\* registration with a table id and a seat index pointing at a seat of a
\* stored table that holds that player, and every player whose recorded table
\* changed sitting at the recorded table.
C30_RegistrationsMatchSeats ==
    \A id \in TournamentIds, t \in TableIds :
        TournamentHandAt(id, t) =>
            \A signer \in Signers, p \in PlayerIds, seat \in SeatArgs,
               kind \in ActionKinds :
                LET out == handle_player_action(Store, signer,
                                                PlayerActionCmd(t, p, seat, kind))
                IN (out.resp.err = "" /\ out.resp.engine = "Finished") =>
                      RegistrationsMatchSeats(out.st, Unwrap(tournaments[id]), id)

-----------------------------------------------------------------------------
(* Properties: the last player of a tournament *)

\* the PlayerAction finishes the hand stored for its table
FinishesHand(S, cmd) ==
    /\ IsSome(load_table(S, cmd.table_id))
    /\ IsSome(load_active_snapshot(S, cmd.table_id))
    /\ LET a == engine_apply_action(
                    Unwrap(load_table(S, cmd.table_id)),
                    into_engine(Unwrap(load_active_snapshot(S, cmd.table_id))),
                    cmd.action)
           adv == engine_advance_if_needed(a.table, a.engine)
       IN a.ok /\ (IF adv.ok THEN adv.status ELSE a.status) = "Finished"

\* the table as the finishing PlayerAction saves it before the rebalancer runs
PlayedTable(S, cmd) ==
    LET a == engine_apply_action(
                 Unwrap(load_table(S, cmd.table_id)),
                 into_engine(Unwrap(load_active_snapshot(S, cmd.table_id))),
                 cmd.action)
        adv == engine_advance_if_needed(a.table, a.engine)
    IN adv.table

\* the store the rebalancer is run on by a PlayerAction that finishes a hand
BeforeRebalance(S, cmd) ==
    clear_current_turn_for_table(
        [save_table(S, PlayedTable(S, cmd)) EXCEPT
            !.active_hands[cmd.table_id] = Some(None)],
        cmd.table_id)

\* the tables the rebalancer loads
LoadedTables(S, id) ==
    [tid \in ListedTables(S, id) |-> Unwrap(S.tables[tid])]

RECURSIVE RejectedBusts(_, _)
\* the candidates whose bust the tournament rejects as the bust of its last
\* player, when they are marked in this order
RejectedBusts(cands, t) ==
    IF cands = <<>> THEN {}
    ELSE LET r == mark_player_busted(t, Head(cands))
         IN (IF r.err = "Tournament:CannotBustLastPlayer" THEN {Head(cands)} ELSE {})
            \cup
            (IF r.err = "" \/ r.err = "Tournament:CannotBustLastPlayer"
             THEN RejectedBusts(Tail(cands), r.t) ELSE {})

\* the players whose bust is rejected when the rebalancer runs on S
RejectedIn(S, id) ==
    IF ~Running(S, id) \/ ListedTables(S, id) = {} THEN {}
    ELSE RejectedBusts(
             SetToSeq(BustedCandidates(Unwrap(S.tournaments[id]),
                                       LoadedTables(S, id))),
             Unwrap(S.tournaments[id]))

\* C31: when a PlayerAction finishes a hand of a tournament and the rebalancer
\* is refused the bust of the last active player, the command still answers
\* HandFinished without an error and that player's registration stays
\* non-busted; and a Running tournament that has registrations always has a
\* non-busted one.
C31_LastBustAbsorbed ==
    /\ \A id \in TournamentIds, t \in TableIds :
          table_tournament_id(Store, t) = Some(id) =>
            \A signer \in Signers, p \in PlayerIds, seat \in SeatArgs,
               kind \in ActionKinds :
                LET cmd == PlayerActionCmd(t, p, seat, kind)
                    out == handle_player_action(Store, signer, cmd)
                IN FinishesHand(Store, cmd) =>
                      \A q \in RejectedIn(BeforeRebalance(Store, cmd), id) :
                          /\ out.resp.err = ""
                          /\ out.resp.variant = "HandFinished"
                          /\ IsSome(out.st.tournaments[id])
                          /\ q \in ActiveRegs(Unwrap(out.st.tournaments[id]))
    /\ \A id \in TournamentIds :
          (Running(Store, id) /\ Registered(Unwrap(tournaments[id])) # {}) =>
              ActiveRegs(Unwrap(tournaments[id])) # {}

\* a hand has just finished and left a single non-busted player who has no
\* chips: the player whose bust was refused
C31_Witness ==
    /\ last.kind = "PlayerAction"
    /\ last.err = ""
    /\ last.variant = "HandFinished"
    /\ \E id \in TournamentIds, q \in PlayerIds :
          /\ IsSome(tournaments[id])
          /\ ActiveRegs(Unwrap(tournaments[id])) = {q}
          /\ Unwrap(Unwrap(tournaments[id]).registrations[q]).total_chips = 0
          /\ \E r \in Registered(Unwrap(tournaments[id])) :
                Unwrap(Unwrap(tournaments[id]).registrations[r]).is_busted

-----------------------------------------------------------------------------
(* Properties: the table ids of a tournament *)

StartTournamentCmd(id) == [tournament_id |-> id]

\* C32: a StartTournament that succeeds lists only table ids under which no
\* table was stored and that were bound to no tournament, and it leaves every
\* table stored before it, and the hand snapshot of that table, as they were.
C32_StartTournamentIdsFresh ==
    \A id \in TournamentIds, signer \in Signers :
        LET out == handle_start_tournament(Store, signer, StartTournamentCmd(id))
        IN out.resp.err = "" =>
              /\ \A tid \in SeqToSet(Unwrap(out.st.tournament_tables[id])) :
                    /\ tables[tid] = None
                    /\ table_tournament[tid] = None
              /\ \A tid \in TableIds :
                    IsSome(tables[tid]) =>
                        /\ out.st.tables[tid] = tables[tid]
                        /\ out.st.active_hands[tid] = active_hands[tid]

-----------------------------------------------------------------------------
(* Properties: starting a tournament that has already started *)

\* C33: a StartTournament for a tournament that is Running or Finished
\* returns an error and leaves the stored tables (seats and stacks), the hand
\* snapshots and the tournament records as they were.
C33_RestartChangesNothing ==
    \A id \in TournamentIds, signer \in Signers :
        (IsSome(tournaments[id])
         /\ Unwrap(tournaments[id]).status # "Registering") =>
            LET out == handle_start_tournament(Store, signer, StartTournamentCmd(id))
            IN /\ out.resp.err # ""
               /\ out.st.tables = tables
               /\ out.st.active_hands = active_hands
               /\ out.st.tournaments = tournaments

-----------------------------------------------------------------------------
(* Properties: the blind level *)

\* the outcome of an AdvanceLevel of the owner on the tournament t0
LevelAdvanced(S, out, id) ==
    LET t0 == Unwrap(S.tournaments[id])
        after == Unwrap(out.st.tournaments[id])
    IN /\ out.resp.err = ""
       /\ out.resp.variant = "TournamentState"
       /\ after.current_level =
              IF level_by_number(t0, t0.current_level + 1)
              THEN t0.current_level + 1 ELSE t0.current_level
       /\ after = [t0 EXCEPT !.current_level = after.current_level]
       /\ \A tid \in ListedTables(out.st, id) :
              Unwrap(out.st.tables[tid]).table_type = "Tournament" =>
                  Unwrap(out.st.tables[tid]).stakes =
                      stakes_for_tournament_level(after, after.current_level)

\* C34: an AdvanceLevel of the owner on a stored tournament answers with the
\* tournament state, never with an error; the level is one higher when the
\* blind structure has the next level and the same otherwise; every stored
\* tournament-type table of the tournament's list then has the stakes of that
\* level; and no step of the system lowers the level of a tournament.
C34_AdvanceLevel ==
    [][\A id \in TournamentIds :
          IsSome(tournaments[id]) =>
              /\ IsSome(tournaments'[id])
              /\ Unwrap(tournaments'[id]).current_level
                     >= Unwrap(tournaments[id]).current_level
              /\ \A signer \in Signers :
                     ensure_admin(Store, signer) = "" =>
                         LevelAdvanced(
                             Store,
                             handle_advance_tournament_level(
                                 Store, signer, StartTournamentCmd(id)),
                             id)]_vars

\* the level was advanced to the last level of the structure while the
\* tournament has a table, which carries the stakes of that level
C34_Witness ==
    /\ last.kind = "AdvanceLevel"
    /\ last.err = ""
    /\ \E id \in TournamentIds :
          /\ Running(Store, id)
          /\ Unwrap(tournaments[id]).current_level = Unwrap(tournaments[id]).num_levels
          /\ ~level_by_number(Unwrap(tournaments[id]),
                              Unwrap(tournaments[id]).current_level + 1)
          /\ \E tid \in ListedTables(Store, id) :
                /\ Unwrap(tables[tid]).table_type = "Tournament"
                /\ Unwrap(tables[tid]).stakes = Unwrap(tournaments[id]).current_level

-----------------------------------------------------------------------------
(* Properties: the global hand counter *)

\* the tables with a stored hand snapshot
TablesWithHand(S) == {t \in TableIds : IsSome(load_active_snapshot(S, t))}

HandIdAt(S, t) == Unwrap(load_active_snapshot(S, t)).hand_id

\* C35: the hand counter never goes down; a StartHand that succeeds raises it
\* by one and gives the new value to the hand it starts, which is therefore
\* above the id of every hand started before; the hands stored at the same
\* time have different ids, none above the counter; and total_hands_played
\* grows by one with a successful StartHand and by nothing otherwise.
C35_HandCounterIncreases ==
    [][/\ next_hand_id' >= next_hand_id
       /\ \A t \in TablesWithHand(Store) :
             /\ HandIdAt(Store, t) >= 1
             /\ HandIdAt(Store, t) <= next_hand_id
             /\ \A u \in TablesWithHand(Store) \ {t} :
                   HandIdAt(Store, u) # HandIdAt(Store, t)
       /\ IF last'.kind = "StartHand" /\ last'.err = ""
          THEN /\ next_hand_id' = next_hand_id + 1
               /\ total_hands_played' = total_hands_played + 1
               /\ \E t \in TableIds :
                     /\ active_hands[t] # active_hands'[t]
                     /\ IsSome(active_hands'[t])
                     /\ IsSome(Unwrap(active_hands'[t]))
                     /\ Unwrap(Unwrap(active_hands'[t])).hand_id = next_hand_id'
                     /\ \A u \in TableIds \ {t} : active_hands'[u] = active_hands[u]
          ELSE total_hands_played' = total_hands_played]_vars

\* two hands are in progress on two tables, with the ids 1 and 2
C35_Witness ==
    /\ last.kind = "StartHand"
    /\ last.err = ""
    /\ total_hands_played = 2
    /\ next_hand_id = 2
    /\ \E t \in TableIds, u \in TableIds :
          /\ t # u
          /\ t \in TablesWithHand(Store)
          /\ u \in TablesWithHand(Store)
          /\ HandIdAt(Store, t) = 1
          /\ HandIdAt(Store, u) = 2

-----------------------------------------------------------------------------
(* Properties: the seating made by StartTournament *)

\* the seats <<table, seat>> of the tables tids that hold player p
SeatsAmong(S, tids, p) ==
    UNION {{<<tid, i>> : i \in {j \in DOMAIN Unwrap(S.tables[tid]).seats :
                                  SeatHolds(S, tid, j, p)}} :
              tid \in {u \in tids : IsSome(S.tables[u])}}

\* C36: after a StartTournament that succeeds the tournament is Running; the
\* tables of its list are stored, of type Tournament, idle, bound to the
\* tournament and hold at most table_size players, all of them registered;
\* and every registered player is in exactly one seat of those tables, with
\* the registration's total_chips as its stack and with the registration
\* naming that table and that seat.
C36_StartTournamentSeatsEveryone ==
    \A id \in TournamentIds, signer \in Signers :
        LET out == handle_start_tournament(Store, signer, StartTournamentCmd(id))
        IN out.resp.err = "" =>
            LET t == Unwrap(out.st.tournaments[id])
                created == SeqToSet(Unwrap(out.st.tournament_tables[id]))
            IN /\ out.resp.variant = "TournamentState"
               /\ t.status = "Running"
               /\ Registered(t) = Registered(Unwrap(tournaments[id]))
               /\ \A tid \in created :
                     /\ IsSome(out.st.tables[tid])
                     /\ Unwrap(out.st.tables[tid]).table_type = "Tournament"
                     /\ ~Unwrap(out.st.tables[tid]).hand_in_progress
                     /\ out.st.active_hands[tid] = Some(None)
                     /\ out.st.table_tournament[tid] = Some(id)
                     /\ seated_count(Unwrap(out.st.tables[tid])) >= 1
                     /\ seated_count(Unwrap(out.st.tables[tid])) <= t.table_size
                     /\ PlayersAt(Unwrap(out.st.tables[tid])) \subseteq Registered(t)
               /\ \A p \in Registered(t) :
                     LET reg == Unwrap(t.registrations[p])
                     IN /\ Cardinality(SeatsAmong(out.st, created, p)) = 1
                        /\ ~reg.is_busted
                        /\ reg.total_chips
                              = Unwrap(Unwrap(tournaments[id]).registrations[p]).total_chips
                        /\ \A s \in SeatsAmong(out.st, created, p) :
                              /\ Unwrap(Unwrap(out.st.tables[s[1]]).seats[s[2]]).stack
                                    = reg.total_chips
                              /\ reg.table_id = Some(s[1])
                              /\ reg.seat_index = Some(s[2])

\* three registered players have just been seated on two tables
C36_Witness ==
    /\ last.kind = "StartTournament"
    /\ last.err = ""
    /\ \E id \in TournamentIds :
          /\ Running(Store, id)
          /\ Cardinality(Registered(Unwrap(tournaments[id]))) = 3
          /\ Len(Unwrap(tournament_tables[id])) = 2
          /\ \A p \in Registered(Unwrap(tournaments[id])) :
                Cardinality(SeatsAmong(Store, ListedIds(Store, id), p)) = 1

-----------------------------------------------------------------------------
(* Properties: the players the rebalancer takes off their seats *)

\* the players in the seats of the tables the store lists for the tournament
OccupantsOf(S, id) ==
    UNION {PlayersAt(Unwrap(S.tables[tid])) : tid \in ListedTables(S, id)}

\* player q is marked busted in the record of the tournament
MarkedBusted(S, id, q) ==
    /\ IsSome(S.tournaments[id])
    /\ IsSome(Unwrap(S.tournaments[id]).registrations[q])
    /\ Unwrap(Unwrap(S.tournaments[id]).registrations[q]).is_busted

\* C37: when a PlayerAction finishes a hand of a tournament table and the
\* rebalancer completes, every player who sat at a table of the tournament
\* when the rebalancer started either still sits at a stored table or is
\* marked busted in the tournament record.
C37_NobodyDisappears ==
    \A id \in TournamentIds, t \in TableIds :
        table_tournament_id(Store, t) = Some(id) =>
            \A signer \in Signers, p \in PlayerIds, seat \in SeatArgs,
               kind \in ActionKinds :
                LET cmd == PlayerActionCmd(t, p, seat, kind)
                    out == handle_player_action(Store, signer, cmd)
                IN (FinishesHand(Store, cmd) /\ out.resp.err = "") =>
                      \A q \in OccupantsOf(BeforeRebalance(Store, cmd), id) :
                          \/ \E tid \in TableIds, i \in SeatArgs :
                                SeatHolds(out.st, tid, i, q)
                          \/ MarkedBusted(out.st, id, q)

-----------------------------------------------------------------------------
(* Properties: the rebalancer and the tables that are playing *)

\* C38: when a PlayerAction finishes a hand at a table of a tournament, every
\* other table bound to that tournament that has a hand in progress is stored
\* afterwards exactly as before (same seats, same stacks), with the same hand
\* snapshot.
C38_PlayingTablesUntouched ==
    \A id \in TournamentIds, t \in TableIds :
        table_tournament_id(Store, t) = Some(id) =>
            \A signer \in Signers, p \in PlayerIds, seat \in SeatArgs,
               kind \in ActionKinds :
                LET cmd == PlayerActionCmd(t, p, seat, kind)
                    out == handle_player_action(Store, signer, cmd)
                IN (FinishesHand(Store, cmd) /\ out.resp.err = "") =>
                      \A u \in TableIds \ {t} :
                          (/\ table_tournament_id(Store, u) = Some(id)
                           /\ HandInProgress(Store, u)
                           /\ IsSome(load_active_snapshot(Store, u))) =>
                              /\ out.st.tables[u] = tables[u]
                              /\ out.st.active_hands[u] = active_hands[u]

-----------------------------------------------------------------------------
(* Properties: a hand under the clock *)

\* the bank of the player the stored clock of table t is armed for
ArmedBank(S, t) ==
    LET ctrl == Unwrap(S.time_controllers[t])
    IN Unwrap(ctrl.banks[Unwrap(ctrl.current_turn)])

\* the clock of table t is armed, for a player with a bank
ClockArmed(S, t) ==
    /\ IsSome(S.time_controllers[t])
    /\ IsSome(Unwrap(S.time_controllers[t]).current_turn)
    /\ IsSome(Unwrap(S.time_controllers[t]).banks[
                  Unwrap(Unwrap(S.time_controllers[t]).current_turn)])

\* the tick brought the hand at table t nearer to its end: the hand is over,
\* or fewer seats have yet to act, or the armed player has less time left
TickProgress(S, after, t) ==
    \/ load_active_snapshot(after, t) = None
    \/ Cardinality(Unwrap(load_active_snapshot(after, t)).pending)
          < Cardinality(Unwrap(load_active_snapshot(S, t)).pending)
    \/ /\ ClockArmed(S, t)
       /\ ClockArmed(after, t)
       /\ Unwrap(after.time_controllers[t]).current_turn
             = Unwrap(S.time_controllers[t]).current_turn
       /\ ArmedBank(after, t) < ArmedBank(S, t)

\* C39: a hand cannot get stuck under the clock: in every state in which a
\* table has a stored hand, a TickTable with a positive number of seconds
\* finishes the hand, or passes the turn by a forced fold, or lowers the time
\* bank of the player on the clock; ticks alone therefore bring every started
\* hand to its end.
C39_TickedHandFinishes ==
    \A t \in TableIds :
        (IsSome(tables[t]) /\ IsSome(load_active_snapshot(Store, t))) =>
            \A signer \in Signers, secs \in 1..TimeBankSecs :
                TickProgress(
                    Store,
                    handle_tick_table(Store, signer,
                                      [table_id |-> t, delta_secs |-> secs]).st,
                    t)

-----------------------------------------------------------------------------
(* Properties: the time bank *)

\* what is left of a bank after secs seconds
BankAfter(bank, secs) == IF bank > secs THEN bank - secs ELSE 0

\* C40: elapsed time is never lost: in every state in which a table has a
\* stored hand and an armed clock, after a TickTable of any number of seconds,
\* a tick that times the armed player out included, the stored controller
\* holds that player's bank reduced by the elapsed seconds, zero after a
\* timeout.
C40_ElapsedTimeIsKept ==
    \A t \in TableIds :
        (/\ IsSome(tables[t])
         /\ IsSome(load_active_snapshot(Store, t))
         /\ ClockArmed(Store, t)) =>
            \A signer \in Signers, secs \in 1..TimeBankSecs :
                LET after == handle_tick_table(
                                 Store, signer,
                                 [table_id |-> t, delta_secs |-> secs]).st
                IN /\ IsSome(after.time_controllers[t])
                   /\ Unwrap(after.time_controllers[t]).banks[
                             Unwrap(ArmedPlayer(Store, t))]
                         = Some(BankAfter(ArmedBank(Store, t), secs))

====
